---- MODULE Spec2Model ----
(***************************************************************************)
(* Diffy: the tree-diff builder (core/tree.rs), the analysis entry point   *)
(* (core/mod.rs) and the hunk diff engine (core/diff.rs).                  *)
(*                                                                         *)
(* A file name is a sequence of bytes, a relative path a sequence of file  *)
(* names (the empty sequence is the empty path of the synthetic root).     *)
(* A file's content is a byte vector kept sparsely: its length and the set *)
(* of offsets that hold the byte 1, every other byte being 0.  A           *)
(* filesystem side maps every relative path to the entry found there.      *)
(***************************************************************************)
EXTENDS Integers, Sequences, FiniteSets, TLC

VARIABLES
    fs,           \* [L, R]: the filesystem under the left and the right root
    pc,           \* position of the running analyze call
    walked,       \* [L, R]: `files` of each root's walker (tree.rs:125)
    walkerDone,   \* [L, R]: the walker's task has stored its result (tree.rs:57,65)
    found,        \* [L, R]: left_files / right_files (tree.rs:47-48)
    all_paths,    \* the union of the two enumerations (tree.rs:74-76)
    file_infos,   \* relative path -> FileInfo, filled by the parallel map (tree.rs:79-115)
    statuses,     \* relative path -> <<FileInfo, DiffStatus>> (tree.rs:151-172)
    tree,         \* Result<FileEntry> of build (tree.rs:33-44)
    results,      \* the Result<DiffResult> every finished analyze call returned
    left_path,    \* what diff_files finds at its left_path (diff.rs:14)
    right_path,   \* what diff_files finds at its right_path (diff.rs:20)
    oracle,       \* the changes TextDiff::from_lines yields for the two texts (diff.rs:43,55)
    file_diff,    \* Option<Result<FileDiff>>: what diff_files returned, once it has
    request,      \* the relative_path argument of get_file_diff (mod.rs:95)
    disk,         \* what the machine holds at each absolute path
    reads,        \* [L, R]: what the read calls of compare_large_files deliver (tree.rs:310-323)
    large_equal,  \* Option<Result<bool>>: what compare_large_files returned, once it has
    app,          \* the TuiApp (tui.rs:20-31)
    app_end,      \* how run_app stands: running, returned an error, or panicked
    profile       \* what the build fixes: overflow checks, the list widget of the library

treeVars == <<fs, pc, walked, walkerDone, found, all_paths, file_infos, statuses, tree, results>>
diffVars == <<left_path, right_path, oracle, file_diff, request, disk>>
readVars == <<reads, large_equal>>
tuiVars == <<app, app_end, profile>>
vars == <<treeVars, diffVars, readVars, tuiVars>>

\* No diff_files call is under way: both paths absent, nothing returned.
NoDiff ==
    /\ left_path = [kind |-> "absent", content |-> <<>>]
    /\ right_path = [kind |-> "absent", content |-> <<>>]
    /\ oracle = <<>>
    /\ file_diff = <<>>
    /\ request = [absolute |-> FALSE, components |-> <<>>]
    /\ disk = <<>>

\* No compare_large_files call is watched: every read fills its buffer.
NoCompare ==
    /\ reads = [s \in {"L", "R"} |-> <<>>]
    /\ large_equal = <<>>

\* TuiApp::new (tui.rs:48-61): nothing loaded, nothing selected.
TuiApp_new ==
    [diff_result |-> <<>>,
     tree_state |-> <<>>,
     tree_items |-> <<>>,
     collapsed_dirs |-> {},
     selected_file |-> <<>>,
     current_diff |-> <<>>,
     scroll_offset |-> 0]

\* No terminal interface is running.
NoTui ==
    /\ app = TuiApp_new
    /\ app_end = "running"
    /\ profile = [overflow_checks |-> TRUE, render_clamps |-> TRUE]

Sides == {"L", "R"}

(***************************************************************************)
(* Option and Result values.                                               *)
(***************************************************************************)
None == <<>>
Some(x) == <<x>>
IsSome(o) == o # <<>>
Unwrap(o) == o[1]

Ok(v) == [ok |-> TRUE, val |-> <<v>>]
Err == [ok |-> FALSE, val |-> <<>>]
Value(r) == r.val[1]
unwrap_or(r, d) == IF r.ok THEN Value(r) ELSE d

(***************************************************************************)
(* Paths.                                                                  *)
(***************************************************************************)
RootPath == <<>>

\* Path::parent: None for the empty path, else the path without its last component.
parent(p) == IF p = <<>> THEN None ELSE Some(SubSeq(p, 1, Len(p) - 1))

\* Path::file_name: None for the empty path, else the last component.
file_name(p) == IF p = <<>> THEN None ELSE Some(p[Len(p)])

\* Path::components().count()
components_count(p) == Len(p)

\* Ord for OsStr: bytewise lexicographic.
RECURSIVE CmpBytes(_, _)
CmpBytes(a, b) ==
    IF a = <<>> /\ b = <<>> THEN "Equal"
    ELSE IF a = <<>> THEN "Less"
    ELSE IF b = <<>> THEN "Greater"
    ELSE IF Head(a) < Head(b) THEN "Less"
    ELSE IF Head(a) > Head(b) THEN "Greater"
    ELSE CmpBytes(Tail(a), Tail(b))

\* Ord for Option<&OsStr>: None sorts before Some.
CmpOptionName(x, y) ==
    IF ~IsSome(x) /\ ~IsSome(y) THEN "Equal"
    ELSE IF ~IsSome(x) THEN "Less"
    ELSE IF ~IsSome(y) THEN "Greater"
    ELSE CmpBytes(Unwrap(x), Unwrap(y))

(***************************************************************************)
(* Filesystem entries and the probes the builder makes.                    *)
(***************************************************************************)
NoEntry == [kind |-> "none", len |-> 0, mark |-> {}, readable |-> FALSE]
DirEntry == [kind |-> "dir", len |-> 0, mark |-> {}, readable |-> TRUE]
\* A symbolic link whose target is missing: the walker lists it, a probe that
\* follows links does not find it.
DanglingLink == [kind |-> "dangling", len |-> 0, mark |-> {}, readable |-> FALSE]
FileOf(n, m, r) == [kind |-> "file", len |-> n, mark |-> m, readable |-> r]

\* A side of fs holds the root's entry and the entries under it; no other path
\* names anything.
Lookup(side, p) == IF p \in DOMAIN fs[side] THEN fs[side][p] ELSE NoEntry

\* Path::exists (follows links; false on any error).
exists(side, p) == Lookup(side, p).kind \in {"file", "dir"}

\* Path::is_dir
is_dir(side, p) == Lookup(side, p).kind = "dir"

\* std::fs::metadata: Ok([is_dir, len]) for an entry that exists, Err otherwise.
metadata(side, p) ==
    IF exists(side, p)
    THEN Ok([is_dir |-> is_dir(side, p), len |-> Lookup(side, p).len])
    ELSE Err

\* A byte vector: the n bytes of entry e from offset off on.
Bytes(e, off, n) ==
    [len |-> n, mark |-> {m - off : m \in {x \in e.mark : x >= off /\ x < off + n}}]

\* std::fs::read: the whole content, or Err when the file cannot be opened.
read(side, p) ==
    LET e == Lookup(side, p)
    IN IF e.kind = "file" /\ e.readable THEN Ok(Bytes(e, 0, e.len)) ELSE Err

\* File::open
open(side, p) ==
    LET e == Lookup(side, p)
    IN IF e.kind = "file" /\ e.readable THEN Ok(e) ELSE Err

(***************************************************************************)
(* The equality check of two files (tree.rs:246-338).                      *)
(***************************************************************************)
CHUNK_SIZE == 64 * 1024

SMALL_FILE_LIMIT == 1024 * 1024

Min2(a, b) == IF a < b THEN a ELSE b

\* A read plan lists the most each successive read call of one reader delivers;
\* a call beyond the plan fills the buffer or delivers the rest of the file.
FullReads == <<>>
PlanCap(plan) == IF plan = <<>> THEN CHUNK_SIZE ELSE Head(plan)
PlanRest(plan) == IF plan = <<>> THEN <<>> ELSE Tail(plan)

\* Read::read into a buffer of CHUNK_SIZE bytes, truncated to the count read.
read_chunk(e, off, plan) == Bytes(e, off, Min2(Min2(CHUNK_SIZE, e.len - off), PlanCap(plan)))

\* Mutant of compare_chunks: a chunk that does not fill the buffer is taken for
\* the end of the file before it is compared.
RECURSIVE compare_chunks_short_is_eof(_, _, _, _, _, _)
compare_chunks_short_is_eof(eL, eR, offL, offR, planL, planR) ==
    LET left_chunk == read_chunk(eL, offL, planL)
        right_chunk == read_chunk(eR, offR, planR)
    IN IF left_chunk.len < CHUNK_SIZE THEN Ok(TRUE)
       ELSE IF left_chunk # right_chunk THEN Ok(FALSE)
       ELSE compare_chunks_short_is_eof(eL, eR, offL + left_chunk.len,
                                        offR + right_chunk.len,
                                        PlanRest(planL), PlanRest(planR))

\* The loop of compare_large_files: one pair of chunks per iteration.
RECURSIVE compare_chunks(_, _, _, _, _, _)
compare_chunks(eL, eR, offL, offR, planL, planR) ==
    LET left_chunk == read_chunk(eL, offL, planL)
        right_chunk == read_chunk(eR, offR, planR)
    IN IF left_chunk # right_chunk THEN Ok(FALSE)
       ELSE IF left_chunk.len = 0 THEN Ok(TRUE)
       ELSE compare_chunks(eL, eR, offL + left_chunk.len, offR + right_chunk.len,
                           PlanRest(planL), PlanRest(planR))

compare_large_files(p, planL, planR) ==
    LET left_file == open("L", p)
        right_file == open("R", p)
    IN IF ~left_file.ok \/ ~right_file.ok THEN Err
       ELSE compare_chunks(Value(left_file), Value(right_file), 0, 0, planL, planR)

\* Mutant of files_are_equal: the quick size check is inverted.
files_are_equal_inverted_size(p) ==
    IF ~exists("L", p) \/ ~exists("R", p) THEN Ok(FALSE)
    ELSE LET left_meta == metadata("L", p)
             right_meta == metadata("R", p)
         IN IF ~left_meta.ok \/ ~right_meta.ok THEN Err
            ELSE IF Value(left_meta).is_dir /\ Value(right_meta).is_dir THEN Ok(TRUE)
            ELSE IF Value(left_meta).is_dir # Value(right_meta).is_dir THEN Ok(FALSE)
            ELSE IF Value(left_meta).len = Value(right_meta).len THEN Ok(FALSE)
            ELSE IF Value(left_meta).len < SMALL_FILE_LIMIT
                 THEN LET left_result == read("L", p)
                          right_result == read("R", p)
                      IN IF ~left_result.ok \/ ~right_result.ok THEN Err
                         ELSE Ok(Value(left_result) = Value(right_result))
            ELSE compare_large_files(p, FullReads, FullReads)

files_are_equal(p) ==
    IF ~exists("L", p) \/ ~exists("R", p) THEN Ok(FALSE)
    ELSE LET left_meta == metadata("L", p)
             right_meta == metadata("R", p)
         IN IF ~left_meta.ok \/ ~right_meta.ok THEN Err
            ELSE IF Value(left_meta).is_dir /\ Value(right_meta).is_dir THEN Ok(TRUE)
            ELSE IF Value(left_meta).is_dir # Value(right_meta).is_dir THEN Ok(FALSE)
            ELSE IF Value(left_meta).len # Value(right_meta).len THEN Ok(FALSE)
            ELSE IF Value(left_meta).len < SMALL_FILE_LIMIT
                 THEN LET left_result == read("L", p)
                          right_result == read("R", p)
                      IN IF ~left_result.ok \/ ~right_result.ok THEN Err
                         ELSE Ok(Value(left_result) = Value(right_result))
            ELSE compare_large_files(p, FullReads, FullReads)

(***************************************************************************)
(* Classification of one relative path (tree.rs:81-114, 153-171).          *)
(***************************************************************************)
\* The FileInfo the discovery map builds for a relative path.
file_info(relative_path) ==
    LET exists_left == exists("L", relative_path)
        exists_right == exists("R", relative_path)
        is_directory == IF exists_left THEN is_dir("L", relative_path)
                        ELSE IF exists_right THEN is_dir("R", relative_path)
                        ELSE FALSE
        meta == IF exists_left THEN metadata("L", relative_path)
                ELSE metadata("R", relative_path)
        size == IF ~is_directory
                THEN (IF meta.ok THEN Some(Value(meta).len) ELSE None)
                ELSE None
    IN [path |-> relative_path,
        relative_path |-> relative_path,
        is_directory |-> is_directory,
        size |-> size,
        exists_left |-> exists_left,
        exists_right |-> exists_right]

\* Mutant of file_status: the one-sided statuses are exchanged.
file_status_swapped(info) ==
    IF info.exists_left /\ info.exists_right
    THEN IF info.is_directory THEN "Unchanged"
         ELSE IF unwrap_or(files_are_equal(info.relative_path), FALSE) THEN "Unchanged"
         ELSE "Modified"
    ELSE IF info.exists_left /\ ~info.exists_right THEN "Added"
    ELSE IF ~info.exists_left /\ info.exists_right THEN "Removed"
    ELSE "Unchanged"

\* Mutant of file_status: a failed equality check counts as equal.
file_status_error_is_equal(info) ==
    IF info.exists_left /\ info.exists_right
    THEN IF info.is_directory THEN "Unchanged"
         ELSE IF unwrap_or(files_are_equal(info.relative_path), TRUE) THEN "Unchanged"
         ELSE "Modified"
    ELSE IF info.exists_left /\ ~info.exists_right THEN "Removed"
    ELSE IF ~info.exists_left /\ info.exists_right THEN "Added"
    ELSE "Unchanged"

\* Mutant of file_status: directories go through the equality check too.
file_status_dir_compared(info) ==
    IF info.exists_left /\ info.exists_right
    THEN IF unwrap_or(files_are_equal(info.relative_path), FALSE) THEN "Unchanged"
         ELSE "Modified"
    ELSE IF info.exists_left /\ ~info.exists_right THEN "Removed"
    ELSE IF ~info.exists_left /\ info.exists_right THEN "Added"
    ELSE "Unchanged"

\* The DiffStatus compute_file_statuses gives a FileInfo.
file_status(info) ==
    IF info.exists_left /\ info.exists_right
    THEN IF info.is_directory THEN "Unchanged"
         ELSE IF unwrap_or(files_are_equal(info.relative_path), FALSE) THEN "Unchanged"
         ELSE "Modified"
    ELSE IF info.exists_left /\ ~info.exists_right THEN "Removed"
    ELSE IF ~info.exists_left /\ info.exists_right THEN "Added"
    ELSE "Unchanged"

(***************************************************************************)
(* Assembly of the tree (tree.rs:177-244).                                 *)
(***************************************************************************)
\* Mutant of child_cmp: the file names alone decide.
child_cmp_names_only(a, b) ==
    CmpOptionName(file_name(a[1].relative_path), file_name(b[1].relative_path))

\* The closure of children.sort_by: directories first, then by file name.
child_cmp(a, b) ==
    IF a[1].is_directory /\ ~b[1].is_directory THEN "Less"
    ELSE IF ~a[1].is_directory /\ b[1].is_directory THEN "Greater"
    ELSE CmpOptionName(file_name(a[1].relative_path), file_name(b[1].relative_path))

\* slice::sort_by is a stable sort: an element is placed after the elements
\* that do not compare greater than it.
RECURSIVE InsertSorted(_, _)
InsertSorted(x, s) ==
    IF s = <<>> THEN <<x>>
    ELSE IF child_cmp(x, Head(s)) = "Less" THEN <<x>> \o s
    ELSE <<Head(s)>> \o InsertSorted(x, Tail(s))

\* Mutant of sort_by: the children stay in the map's iteration order.
sort_by_unsorted(s) == s

RECURSIVE sort_by(_)
sort_by(s) ==
    IF s = <<>> THEN <<>>
    ELSE InsertSorted(s[Len(s)], sort_by(SubSeq(s, 1, Len(s) - 1)))

\* The closure of filter_map: is child_info a direct child of info?
is_direct_child(child_info, info) ==
    LET par == parent(child_info.relative_path)
    IN IF IsSome(par) THEN Unwrap(par) = info.relative_path
       ELSE info.relative_path = <<>> /\ components_count(child_info.relative_path) = 1

\* all_statuses.values() in the map's iteration order, filtered to the direct
\* children of info.
direct_children(info, all_statuses, order) ==
    SelectSeq([i \in 1..Len(order) |-> all_statuses[order[i]]],
              LAMBDA v : is_direct_child(v[1], info))

RECURSIVE build_entry_recursive(_, _, _, _)
build_entry_recursive(info, status, all_statuses, order) ==
    LET children == IF info.is_directory
                    THEN sort_by(direct_children(info, all_statuses, order))
                    ELSE <<>>
        built == [i \in 1..Len(children) |->
                     build_entry_recursive(children[i][1], children[i][2], all_statuses, order)]
        kept == SelectSeq(built, LAMBDA r : r.ok)
    IN Ok([path |-> info.path,
           relative_path |-> info.relative_path,
           is_directory |-> info.is_directory,
           status |-> status,
           size |-> info.size,
           children |-> [i \in 1..Len(kept) |-> Value(kept[i])]])

root_info ==
    [path |-> <<>>,
     relative_path |-> <<>>,
     is_directory |-> TRUE,
     size |-> None,
     exists_left |-> TRUE,
     exists_right |-> TRUE]

build_tree_from_statuses(all_statuses, order) ==
    build_entry_recursive(root_info, "Unchanged", all_statuses, order)

(***************************************************************************)
(* The counts of a DiffResult (mod.rs:103-154).                            *)
(***************************************************************************)
PARALLEL_THRESHOLD == 10

Add4(x, y) == <<x[1] + y[1], x[2] + y[2], x[3] + y[3], x[4] + y[4]>>

RECURSIVE SumCounts(_, _)
SumCounts(acc, rs) == IF rs = <<>> THEN acc ELSE SumCounts(Add4(acc, Head(rs)), Tail(rs))

\* Mutant of count_recursive_parallel: the parallel branch loses the first
\* child's result.
RECURSIVE count_recursive_parallel_drop(_)
count_recursive_parallel_drop(entry) ==
    LET own == IF ~entry.is_directory
               THEN <<1,
                      IF entry.status = "Added" THEN 1 ELSE 0,
                      IF entry.status = "Removed" THEN 1 ELSE 0,
                      IF entry.status = "Modified" THEN 1 ELSE 0>>
               ELSE <<0, 0, 0, 0>>
        par_results == [i \in 1..Len(entry.children) |->
                           count_recursive_parallel_drop(entry.children[i])]
        seq_results == [i \in 1..Len(entry.children) |->
                           count_recursive_parallel_drop(entry.children[i])]
    IN IF entry.children # <<>>
       THEN IF Len(entry.children) > PARALLEL_THRESHOLD
            THEN SumCounts(own, Tail(par_results))
            ELSE SumCounts(own, seq_results)
       ELSE own

RECURSIVE count_recursive_parallel(_)
count_recursive_parallel(entry) ==
    LET own == IF ~entry.is_directory
               THEN <<1,
                      IF entry.status = "Added" THEN 1 ELSE 0,
                      IF entry.status = "Removed" THEN 1 ELSE 0,
                      IF entry.status = "Modified" THEN 1 ELSE 0>>
               ELSE <<0, 0, 0, 0>>
        \* par_iter().map().collect() keeps the children's order
        par_results == [i \in 1..Len(entry.children) |->
                           count_recursive_parallel(entry.children[i])]
        seq_results == [i \in 1..Len(entry.children) |->
                           count_recursive_parallel(entry.children[i])]
    IN IF entry.children # <<>>
       THEN IF Len(entry.children) > PARALLEL_THRESHOLD
            THEN SumCounts(own, par_results)
            ELSE SumCounts(own, seq_results)
       ELSE own

count_file_stats(entry) == count_recursive_parallel(entry)

(***************************************************************************)
(* Bounds of the model and the filesystems it starts from.                 *)
(***************************************************************************)
\* Most relative paths present under the two roots together.
MaxPaths == 2

\* Most components of a relative path.
MaxDepth == 2

\* Most analyze calls in one behaviour.
MaxCalls == 2

\* The file names "Z", "a" and "ab".
Names == {<<90>>, <<97>>, <<97, 98>>}

Universe == UNION {[1..n -> Names] : n \in 1..MaxDepth}

ParentPath(p) == SubSeq(p, 1, Len(p) - 1)

PlainFile == FileOf(2, {}, TRUE)

\* Lengths below, at and above the limit of the full-read comparison.
FileLens == {2, SMALL_FILE_LIMIT - 1, SMALL_FILE_LIMIT, SMALL_FILE_LIMIT + 1}

\* Files of zero bytes, the same with the last byte 1, and a file that
\* cannot be opened.
Contents ==
    {FileOf(n, m, TRUE) : n \in FileLens, m \in {{}}} \cup
    {FileOf(n, {n - 1}, TRUE) : n \in FileLens} \cup
    {FileOf(2, {}, FALSE)}

PlainKinds == {NoEntry, DirEntry, PlainFile}

AllKinds == {NoEntry, DirEntry, DanglingLink} \cup Contents

RootKinds == {NoEntry, DirEntry, PlainFile}

SideOf(root, S, k) ==
    [p \in {RootPath} \cup {q \in S : k[q].kind # "none"} |->
        IF p = RootPath THEN root ELSE k[p]]

\* An entry lies in a directory.
WellFormed(side) ==
    \A p \in DOMAIN side \ {RootPath} :
        ParentPath(p) \in DOMAIN side /\ side[ParentPath(p)].kind = "dir"

\* The paths that may join the set S: children of the root or of a path of S.
Extensions(S) ==
    {Append(q, n) : q \in {x \in S \cup {RootPath} : Len(x) < MaxDepth}, n \in Names} \ S

\* The sets of at most k paths that hold the parent of each of their paths.
RECURSIVE PathSetsUpTo(_)
PathSetsUpTo(k) ==
    IF k = 0 THEN {{}}
    ELSE LET smaller == PathSetsUpTo(k - 1)
         IN smaller \cup UNION {{S \cup {p} : p \in Extensions(S)} : S \in smaller}

PathSets == PathSetsUpTo(MaxPaths)

Filesystem(rl, rr, S, kl, kr) == [L |-> SideOf(rl, S, kl), R |-> SideOf(rr, S, kr)]

\* Trees of directories and plain files: S is the set of paths present.
ShapeFilesystem(f) ==
    \E S \in PathSets : \E rl \in RootKinds, rr \in RootKinds :
        \E kl \in [S -> PlainKinds], kr \in [S -> PlainKinds] :
            /\ \A p \in S : kl[p].kind # "none" \/ kr[p].kind # "none"
            /\ WellFormed(SideOf(rl, S, kl))
            /\ WellFormed(SideOf(rr, S, kr))
            /\ f = Filesystem(rl, rr, S, kl, kr)

\* One path holding every kind of entry and content.
ContentPath == <<<<97>>>>

ContentFilesystem(f) ==
    \E rl \in RootKinds, rr \in RootKinds : \E el \in AllKinds, er \in AllKinds :
        /\ WellFormed(SideOf(rl, {ContentPath}, [p \in {ContentPath} |-> el]))
        /\ WellFormed(SideOf(rr, {ContentPath}, [p \in {ContentPath} |-> er]))
        /\ f = Filesystem(rl, rr, {ContentPath},
                          [p \in {ContentPath} |-> el], [p \in {ContentPath} |-> er])

\* Two files of one length at ContentPath, one at least impossible to open,
\* beside a directory or plain file at OtherPath.
OtherPath == <<<<90>>>>

FailingFiles(n) == {FileOf(n, {}, TRUE), FileOf(n, {}, FALSE)}

FailureFilesystem(f) ==
    \E n \in {2, SMALL_FILE_LIMIT} : \E el \in FailingFiles(n), er \in FailingFiles(n) :
        \E ol \in PlainKinds, or \in PlainKinds :
            /\ ~el.readable \/ ~er.readable
            /\ ol.kind # "none" \/ or.kind # "none"
            /\ f = Filesystem(DirEntry, DirEntry, {ContentPath, OtherPath},
                              (ContentPath :> el) @@ (OtherPath :> ol),
                              (ContentPath :> er) @@ (OtherPath :> or))

\* Two regular files as the roots, of the same or of different content.
RootFiles == {FileOf(2, {}, TRUE), FileOf(2, {1}, TRUE)}

FileRootsFilesystem(f) ==
    \E el \in RootFiles, er \in RootFiles : f = Filesystem(el, er, {}, <<>>, <<>>)

NoTree == Err

Idle ==
    /\ pc = "idle"
    /\ walked = [s \in Sides |-> {}]
    /\ walkerDone = [s \in Sides |-> FALSE]
    /\ found = [s \in Sides |-> {}]
    /\ all_paths = {}
    /\ file_infos = <<>>
    /\ statuses = <<>>
    /\ tree = NoTree

Init ==
    /\ \/ ShapeFilesystem(fs)
       \/ ContentFilesystem(fs)
       \/ FailureFilesystem(fs)
       \/ FileRootsFilesystem(fs)
    /\ Idle
    /\ results = <<>>
    /\ NoDiff
    /\ NoCompare
    /\ NoTui

(***************************************************************************)
(* analyze and build, step by step.                                        *)
(***************************************************************************)
\* DiffyCore::analyze is called: build starts its discovery.
analyze_call ==
    /\ pc = "idle"
    /\ Len(results) < MaxCalls
    /\ pc' = "discover"
    /\ UNCHANGED <<fs, walked, walkerDone, found, all_paths, file_infos, statuses, tree, results>>
    /\ UNCHANGED <<diffVars, readVars, tuiVars>>

\* The entries a walk of a root yields, made relative to the root; the root's own
\* entry has the empty relative path and is left out.  fs holds the entries the
\* walk lists: what the ignore rules hide is not part of it.  Links are not
\* followed, so a dangling link is listed.
walk_entries(side) ==
    {p \in DOMAIN fs[side] : Lookup(side, p).kind # "none" /\ p # RootPath}

\* One walker thread inserts one entry's relative path into `files`.
walker_visit(side, p) ==
    /\ pc = "discover"
    /\ ~walkerDone[side]
    /\ exists(side, RootPath)
    /\ p \in walk_entries(side) \ walked[side]
    /\ Len(p) = 1 \/ ParentPath(p) \in walked[side]
    /\ walked' = [walked EXCEPT ![side] = @ \cup {p}]
    /\ UNCHANGED <<fs, pc, walkerDone, found, all_paths, file_infos, statuses, tree, results>>
    /\ UNCHANGED <<diffVars, readVars, tuiVars>>

\* collect_files_parallel_static returns and its task stores the set.
collect_files_parallel_static(side) ==
    /\ pc = "discover"
    /\ ~walkerDone[side]
    /\ ~exists(side, RootPath) \/ walked[side] = walk_entries(side)
    /\ found' = [found EXCEPT ![side] = IF exists(side, RootPath) THEN walked[side] ELSE {}]
    /\ walkerDone' = [walkerDone EXCEPT ![side] = TRUE]
    /\ UNCHANGED <<fs, pc, walked, all_paths, file_infos, statuses, tree, results>>
    /\ UNCHANGED <<diffVars, readVars, tuiVars>>

\* The scope has joined both tasks: the path sets are united.
combine_paths ==
    /\ pc = "discover"
    /\ \A s \in Sides : walkerDone[s]
    /\ all_paths' = found["L"] \cup found["R"]
    /\ pc' = "infos"
    /\ UNCHANGED <<fs, walked, walkerDone, found, file_infos, statuses, tree, results>>
    /\ UNCHANGED <<diffVars, readVars, tuiVars>>

\* One task of the parallel map builds the FileInfo of one path.
make_file_info(p) ==
    /\ pc = "infos"
    /\ p \in all_paths \ DOMAIN file_infos
    /\ file_infos' = (p :> file_info(p)) @@ file_infos
    /\ UNCHANGED <<fs, pc, walked, walkerDone, found, all_paths, statuses, tree, results>>
    /\ UNCHANGED <<diffVars, readVars, tuiVars>>

\* discover_all_files returns the collected FileInfos.
discover_all_files ==
    /\ pc = "infos"
    /\ DOMAIN file_infos = all_paths
    /\ pc' = "statuses"
    /\ UNCHANGED <<fs, walked, walkerDone, found, all_paths, file_infos, statuses, tree, results>>
    /\ UNCHANGED <<diffVars, readVars, tuiVars>>

\* One task of the parallel map classifies one FileInfo.
compute_status(p) ==
    /\ pc = "statuses"
    /\ p \in DOMAIN file_infos \ DOMAIN statuses
    /\ statuses' = (p :> <<file_infos[p], file_status(file_infos[p])>>) @@ statuses
    /\ UNCHANGED <<fs, pc, walked, walkerDone, found, all_paths, file_infos, tree, results>>
    /\ UNCHANGED <<diffVars, readVars, tuiVars>>

\* compute_file_statuses returns the collected map.
compute_file_statuses ==
    /\ pc = "statuses"
    /\ DOMAIN statuses = DOMAIN file_infos
    /\ pc' = "assemble"
    /\ UNCHANGED <<fs, walked, walkerDone, found, all_paths, file_infos, statuses, tree, results>>
    /\ UNCHANGED <<diffVars, readVars, tuiVars>>

\* The orders in which a hash map holding the keys S may iterate.
IterationOrders(S) ==
    {o \in [1..Cardinality(S) -> S] : \A i, j \in 1..Cardinality(S) : o[i] = o[j] => i = j}

\* build_tree_from_statuses, the status map iterating in some order.
build ==
    /\ pc = "assemble"
    /\ \E order \in IterationOrders(DOMAIN statuses) :
           tree' = build_tree_from_statuses(statuses, order)
    /\ pc' = "built"
    /\ UNCHANGED <<fs, walked, walkerDone, found, all_paths, file_infos, statuses, results>>
    /\ UNCHANGED <<diffVars, readVars, tuiVars>>

\* What analyze returns for the Result<FileEntry> of build.
diff_result(t) ==
    IF ~t.ok THEN Err
    ELSE LET c == count_file_stats(Value(t))
         IN Ok([tree |-> Value(t),
                total_files |-> c[1],
                added_count |-> c[2],
                removed_count |-> c[3],
                modified_count |-> c[4]])

\* analyze counts the tree and returns; the call's locals are dropped.
analyze ==
    /\ pc = "built"
    /\ results' = Append(results, diff_result(tree))
    /\ pc' = "idle"
    /\ walked' = [s \in Sides |-> {}]
    /\ walkerDone' = [s \in Sides |-> FALSE]
    /\ found' = [s \in Sides |-> {}]
    /\ all_paths' = {}
    /\ file_infos' = <<>>
    /\ statuses' = <<>>
    /\ tree' = NoTree
    /\ UNCHANGED fs
    /\ UNCHANGED <<diffVars, readVars, tuiVars>>

Next ==
    \/ analyze_call
    \/ \E s \in Sides : \E p \in Universe : walker_visit(s, p)
    \/ \E s \in Sides : collect_files_parallel_static(s)
    \/ combine_paths
    \/ \E p \in Universe : make_file_info(p)
    \/ discover_all_files
    \/ \E p \in Universe : compute_status(p)
    \/ compute_file_statuses
    \/ build
    \/ analyze

Spec == Init /\ [][Next]_vars

(***************************************************************************)
(* Counting on wide directories: the state build leaves for a filesystem   *)
(* of up to MaxChildren entries in one directory, the status map iterating *)
(* in the order of the names.                                              *)
(***************************************************************************)
\* Most entries of the wide directory.
MaxChildren == 11

\* The names "a", "b", "c", ...
WideName(i) == <<96 + i>>

\* The wide directory: the root, or the directory "Z" under it.
WideParents == {RootPath, <<<<90>>>>}

ChangedFile == FileOf(2, {1}, TRUE)

\* What the two sides hold at an entry, by the status it is to get.
WideLeft(c) ==
    CASE c = "Unchanged" -> PlainFile
      [] c = "Removed" -> PlainFile
      [] c = "Added" -> NoEntry
      [] c = "Modified" -> PlainFile
      [] c = "Directory" -> DirEntry

WideRight(c) ==
    CASE c = "Unchanged" -> PlainFile
      [] c = "Removed" -> NoEntry
      [] c = "Added" -> PlainFile
      [] c = "Modified" -> ChangedFile
      [] c = "Directory" -> DirEntry

WideChoices == {"Unchanged", "Removed", "Added", "Modified", "Directory"}

WidePaths(par, k) == {Append(par, WideName(n)) : n \in 1..k}

WideOrder(par, k) ==
    (IF par = RootPath THEN <<>> ELSE <<par>>) \o [n \in 1..k |-> Append(par, WideName(n))]

WideFilesystem(par, k, choice) ==
    LET S == WidePaths(par, k) \cup ({par} \ {RootPath})
        kl == [p \in S |-> IF p = par THEN DirEntry ELSE WideLeft(choice[p[Len(p)][1] - 96])]
        kr == [p \in S |-> IF p = par THEN DirEntry ELSE WideRight(choice[p[Len(p)][1] - 96])]
    IN Filesystem(DirEntry, DirEntry, S, kl, kr)

InitCount ==
    \E par \in WideParents : \E k \in 0..MaxChildren :
        \E i \in 0..k, j \in 0..k : \E ci \in WideChoices, cj \in WideChoices :
            /\ j = 0 \/ j > i
            /\ fs = WideFilesystem(par, k,
                        [n \in 1..k |-> IF n = i THEN ci ELSE IF n = j THEN cj ELSE "Unchanged"])
            /\ walked = [s \in Sides |-> walk_entries(s)]
            /\ walkerDone = [s \in Sides |-> TRUE]
            /\ found = walked
            /\ all_paths = found["L"] \cup found["R"]
            /\ file_infos = [p \in all_paths |-> file_info(p)]
            /\ statuses = [p \in all_paths |-> <<file_infos[p], file_status(file_infos[p])>>]
            /\ tree = build_tree_from_statuses(statuses, WideOrder(par, k))
            /\ pc = "built"
            /\ results = <<>>
            /\ NoDiff
            /\ NoCompare
            /\ NoTui

SpecCount == InitCount /\ [][analyze]_vars

(***************************************************************************)
(* The properties.                                                         *)
(***************************************************************************)
RECURSIVE NodesOf(_)
NodesOf(e) == {e} \cup UNION {NodesOf(e.children[i]) : i \in 1..Len(e.children)}

\* How many nodes of the tree e carry the relative path p.
RECURSIVE Occurrences(_, _)
Occurrences(e, p) ==
    LET below == [i \in 1..Len(e.children) |-> <<Occurrences(e.children[i], p), 0, 0, 0>>]
    IN (IF e.relative_path = p THEN 1 ELSE 0) + SumCounts(<<0, 0, 0, 0>>, below)[1]

NonRoot(t) == {n \in NodesOf(t) : n.relative_path # RootPath}

\* The trees the finished analyze calls returned, and with them the tree build
\* has just returned.
ReturnedTrees == {Value(results[i]).tree : i \in {k \in 1..Len(results) : results[k].ok}}
BuiltTrees == ReturnedTrees \cup (IF pc = "built" /\ tree.ok THEN {Value(tree)} ELSE {})

\* Every status build has assigned: <<relative path, status>>.
Assigned ==
    {<<p, statuses[p][2]>> : p \in DOMAIN statuses} \cup
    UNION {{<<n.relative_path, n.status>> : n \in NonRoot(t)} : t \in BuiltTrees}

\* What the filesystem holds at a path, links followed.
FoundOn(side, p) == Lookup(side, p).kind \in {"file", "dir"}
DirOn(side, p) == Lookup(side, p).kind = "dir"
FileOn(side, p) == Lookup(side, p).kind = "file"
ReadableOn(side, p) == Lookup(side, p).kind = "file" /\ Lookup(side, p).readable
SameBytes(p) ==
    /\ Lookup("L", p).len = Lookup("R", p).len
    /\ Lookup("L", p).mark = Lookup("R", p).mark

\* The relative paths the two walks list.
ListedPaths == (DOMAIN fs["L"] \cup DOMAIN fs["R"]) \ {RootPath}

\* C1: a path that exists only under the left root is Removed, one that exists
\* only under the right root is Added, one that is a directory on both sides is
\* Unchanged.
C1_StatusByExistence ==
    \A a \in Assigned :
        /\ FoundOn("L", a[1]) /\ ~FoundOn("R", a[1]) => a[2] = "Removed"
        /\ ~FoundOn("L", a[1]) /\ FoundOn("R", a[1]) => a[2] = "Added"
        /\ DirOn("L", a[1]) /\ DirOn("R", a[1]) => a[2] = "Unchanged"

\* A returned tree holds a node that exists only on the left and one that exists
\* only on the right.
C1_Witness ==
    \E t \in ReturnedTrees : \E l \in NonRoot(t), r \in NonRoot(t) :
        /\ FoundOn("L", l.relative_path) /\ ~FoundOn("R", l.relative_path)
        /\ l.status = "Removed"
        /\ ~FoundOn("L", r.relative_path) /\ FoundOn("R", r.relative_path)
        /\ r.status = "Added"

\* C2: a path that is a readable regular file on both sides is Unchanged if and
\* only if the two files are byte-identical, and Modified otherwise (every read
\* returning a full chunk or the rest of the file).
C2_EqualityDecidesStatus ==
    \A a \in Assigned :
        ReadableOn("L", a[1]) /\ ReadableOn("R", a[1]) =>
            /\ a[2] = "Unchanged" <=> SameBytes(a[1])
            /\ ~SameBytes(a[1]) => a[2] = "Modified"

\* A returned tree holds a Modified node whose two files have the same size, at
\* least 1 MiB, and differ in their last byte only.
C2_Witness ==
    \E t \in ReturnedTrees : \E n \in NonRoot(t) :
        LET l == Lookup("L", n.relative_path)
            r == Lookup("R", n.relative_path)
        IN /\ ReadableOn("L", n.relative_path) /\ ReadableOn("R", n.relative_path)
           /\ l.len = r.len /\ l.len >= SMALL_FILE_LIMIT
           /\ (l.mark \cup r.mark) \ (l.mark \cap r.mark) = {l.len - 1}
           /\ n.status = "Modified"

\* The two roots hold the same entries, and every file can be read.
IdenticalTrees ==
    /\ fs["L"] = fs["R"]
    /\ \A p \in DOMAIN fs["L"] : FileOn("L", p) => ReadableOn("L", p)

C4_TypeMismatchModified ==
    /\ pc = "built" => tree.ok
    /\ \A a \in Assigned :
           \/ DirOn("L", a[1]) /\ FileOn("R", a[1])
           \/ FileOn("L", a[1]) /\ DirOn("R", a[1])
           => a[2] = "Modified"

\* C5: when neither root exists build and analyze return an error.
C5_BothRootsMissingFails ==
    ~FoundOn("L", RootPath) /\ ~FoundOn("R", RootPath) =>
        /\ pc = "built" => ~tree.ok
        /\ \A i \in 1..Len(results) : ~results[i].ok

\* C6: when exactly one root exists analyze succeeds, and every node but the root
\* is Added if it is the right root that exists and Removed if it is the left.
C6_OneRootMissing ==
    \A i \in 1..Len(results) :
        /\ ~FoundOn("L", RootPath) /\ FoundOn("R", RootPath) =>
               /\ results[i].ok
               /\ \A n \in NonRoot(Value(results[i]).tree) : n.status = "Added"
        /\ FoundOn("L", RootPath) /\ ~FoundOn("R", RootPath) =>
               /\ results[i].ok
               /\ \A n \in NonRoot(Value(results[i]).tree) : n.status = "Removed"

\* The bytes a come before the bytes b in lexicographic order.
LexLess(a, b) ==
    \E k \in 0..Len(a) :
        /\ k <= Len(b)
        /\ \A i \in 1..k : a[i] = b[i]
        /\ \/ k = Len(a) /\ k < Len(b)
           \/ k < Len(a) /\ k < Len(b) /\ a[k + 1] < b[k + 1]

LastName(n) == n.relative_path[Len(n.relative_path)]

\* C7: in every directory node the children flagged as directories precede the
\* others, and within each group the final path components strictly ascend.
C7_ChildrenOrdered ==
    \A t \in BuiltTrees : \A d \in NodesOf(t) :
        \A i \in 1..Len(d.children), j \in 1..Len(d.children) :
            i < j =>
                /\ ~(~d.children[i].is_directory /\ d.children[j].is_directory)
                /\ d.children[i].is_directory = d.children[j].is_directory =>
                       LexLess(LastName(d.children[i]), LastName(d.children[j]))

\* A directory "a" precedes a file "Z" among the children of one node.
C7_Witness ==
    \E t \in BuiltTrees : \E d \in NodesOf(t) :
        /\ Len(d.children) >= 2
        /\ d.children[1].is_directory /\ LastName(d.children[1]) = <<97>>
        /\ ~d.children[2].is_directory /\ LastName(d.children[2]) = <<90>>

CountOf(t, S) == Cardinality({n \in NodesOf(t) : ~n.is_directory /\ n.status \in S})

\* C9: total_files is the number of non-directory nodes, added_count,
\* removed_count and modified_count the numbers of non-directory nodes with that
\* status; directory nodes are not counted.
C9_CountsMatchTree ==
    \A i \in 1..Len(results) :
        results[i].ok =>
            LET r == Value(results[i])
            IN /\ r.total_files = CountOf(r.tree, {"Added", "Removed", "Modified", "Unchanged", "Conflicted"})
               /\ r.added_count = CountOf(r.tree, {"Added"})
               /\ r.removed_count = CountOf(r.tree, {"Removed"})
               /\ r.modified_count = CountOf(r.tree, {"Modified"})
               /\ r.total_files = r.added_count + r.removed_count + r.modified_count
                                      + CountOf(r.tree, {"Unchanged"})

\* A result whose tree has a directory of more than 10 children (summed in
\* parallel) inside a root of one child (summed sequentially), with an Added file
\* and a directory among the many.
C9_Witness ==
    \E i \in 1..Len(results) :
        /\ results[i].ok
        /\ Len(Value(results[i]).tree.children) = 1
        /\ \E d \in NodesOf(Value(results[i]).tree) :
               /\ Len(d.children) > PARALLEL_THRESHOLD
               /\ \E k \in 1..Len(d.children) : d.children[k].is_directory
        /\ Value(results[i]).added_count = 1
        /\ Value(results[i]).total_files >= PARALLEL_THRESHOLD

\* C10: every listed relative path is exactly one node of the tree, a child of
\* the node of its parent path.
C10_EveryPathOnce ==
    \A t \in BuiltTrees : \A p \in ListedPaths :
        /\ Occurrences(t, p) = 1
        /\ \E d \in NodesOf(t) :
               /\ d.relative_path = ParentPath(p)
               /\ \E i \in 1..Len(d.children) : d.children[i].relative_path = p

(***************************************************************************)
(* The hunk diff engine (core/diff.rs).                                    *)
(*                                                                         *)
(* A character is a one-character string.  A text is kept as the sequence  *)
(* of its raw lines, each a sequence of characters that ends with its      *)
(* terminator "\n", the last one possibly without.  A path of diff_files   *)
(* is absent, holds a text, or exists and cannot be read as a string (a    *)
(* directory, a file without permission, bytes that are not UTF-8).        *)
(***************************************************************************)
context_lines == 3

AbsentPath == [kind |-> "absent", content |-> <<>>]
UnreadablePath == [kind |-> "unreadable", content |-> <<>>]
TextPath(content) == [kind |-> "text", content |-> content]

path_exists(f) == f.kind # "absent"

read_to_string(f) == IF f.kind = "text" THEN Ok(f.content) ELSE Err

\* str::trim_end_matches: s without every trailing c.
RECURSIVE trim_end_matches(_, _)
trim_end_matches(s, c) ==
    IF s # <<>> /\ s[Len(s)] = c THEN trim_end_matches(SubSeq(s, 1, Len(s) - 1), c) ELSE s

\* One line of str::lines: the raw line without its "\n" or "\r\n".
strip_line_ending(raw) ==
    LET a == IF raw # <<>> /\ raw[Len(raw)] = "\n" THEN SubSeq(raw, 1, Len(raw) - 1) ELSE raw
    IN IF a # raw /\ a # <<>> /\ a[Len(a)] = "\r" THEN SubSeq(a, 1, Len(a) - 1) ELSE a

str_lines(content) == [i \in 1..Len(content) |-> strip_line_ending(content[i])]

DiffLine(kind, content, old_line_number, new_line_number) ==
    [kind |-> kind, content |-> content,
     old_line_number |-> old_line_number, new_line_number |-> new_line_number]

\* The Context lines at the end of a hunk's lines (diff.rs:63-69).
RECURSIVE context_after_changes(_)
context_after_changes(lines) ==
    IF lines = <<>> \/ lines[Len(lines)].kind # "Context" THEN 0
    ELSE 1 + context_after_changes(SubSeq(lines, 1, Len(lines) - 1))

\* The locals of compute_diff_hunks before the first change.
diff_locals ==
    [hunks |-> <<>>, current_hunk |-> None, old_line_no |-> 1, new_line_no |-> 1,
     context_buffer |-> <<>>]

\* The arm of Equal that never closes the hunk.
ChangeTag_Equal_never_close(st, line_content) ==
    LET line == DiffLine("Context", line_content, Some(st.old_line_no), Some(st.new_line_no))
        pushed == Append(st.context_buffer, <<line_content, st.old_line_no, st.new_line_no>>)
    IN IF IsSome(st.current_hunk)
       THEN [st EXCEPT !.current_hunk = Some([Unwrap(st.current_hunk) EXCEPT !.lines = Append(@, line)]),
                       !.old_line_no = @ + 1, !.new_line_no = @ + 1]
       ELSE [st EXCEPT !.context_buffer = IF Len(pushed) > context_lines THEN Tail(pushed) ELSE pushed,
                       !.old_line_no = @ + 1, !.new_line_no = @ + 1]

\* The arm of Equal that never drops the oldest buffered line.
ChangeTag_Equal_unbounded_buffer(st, line_content) ==
    LET line == DiffLine("Context", line_content, Some(st.old_line_no), Some(st.new_line_no))
        pushed == Append(st.context_buffer, <<line_content, st.old_line_no, st.new_line_no>>)
    IN IF IsSome(st.current_hunk)
       THEN LET hunk == Unwrap(st.current_hunk)
                lines == Append(hunk.lines, line)
                after == context_after_changes(lines)
            IN IF after >= context_lines
               THEN [st EXCEPT !.hunks = Append(@, [hunk EXCEPT !.lines =
                                     SubSeq(lines, 1, (Len(lines) - after) + Min2(context_lines, after))]),
                               !.current_hunk = None,
                               !.context_buffer = <<>>,
                               !.old_line_no = @ + 1, !.new_line_no = @ + 1]
               ELSE [st EXCEPT !.current_hunk = Some([hunk EXCEPT !.lines = lines]),
                               !.old_line_no = @ + 1, !.new_line_no = @ + 1]
       ELSE [st EXCEPT !.context_buffer = pushed,
                       !.old_line_no = @ + 1, !.new_line_no = @ + 1]

\* The arm of Equal that closes the hunk without pushing it.
ChangeTag_Equal_close_drops(st, line_content) ==
    LET line == DiffLine("Context", line_content, Some(st.old_line_no), Some(st.new_line_no))
        pushed == Append(st.context_buffer, <<line_content, st.old_line_no, st.new_line_no>>)
    IN IF IsSome(st.current_hunk)
       THEN LET hunk == Unwrap(st.current_hunk)
                lines == Append(hunk.lines, line)
                after == context_after_changes(lines)
            IN IF after >= context_lines
               THEN [st EXCEPT !.current_hunk = None,
                               !.context_buffer = <<>>,
                               !.old_line_no = @ + 1, !.new_line_no = @ + 1]
               ELSE [st EXCEPT !.current_hunk = Some([hunk EXCEPT !.lines = lines]),
                               !.old_line_no = @ + 1, !.new_line_no = @ + 1]
       ELSE [st EXCEPT !.context_buffer = IF Len(pushed) > context_lines THEN Tail(pushed) ELSE pushed,
                       !.old_line_no = @ + 1, !.new_line_no = @ + 1]

\* The arm of Equal that keeps the trailing context buffered at the close.
ChangeTag_Equal_keeps_buffer(st, line_content) ==
    LET line == DiffLine("Context", line_content, Some(st.old_line_no), Some(st.new_line_no))
        pushed == Append(st.context_buffer, <<line_content, st.old_line_no, st.new_line_no>>)
    IN IF IsSome(st.current_hunk)
       THEN LET hunk == Unwrap(st.current_hunk)
                lines == Append(hunk.lines, line)
                after == context_after_changes(lines)
            IN IF after >= context_lines
               THEN [st EXCEPT !.hunks = Append(@, [hunk EXCEPT !.lines =
                                     SubSeq(lines, 1, (Len(lines) - after) + Min2(context_lines, after))]),
                               !.current_hunk = None,
                               !.context_buffer =
                                   [i \in 1..after |->
                                       <<lines[Len(lines) - after + i].content,
                                         Unwrap(lines[Len(lines) - after + i].old_line_number),
                                         Unwrap(lines[Len(lines) - after + i].new_line_number)>>],
                               !.old_line_no = @ + 1, !.new_line_no = @ + 1]
               ELSE [st EXCEPT !.current_hunk = Some([hunk EXCEPT !.lines = lines]),
                               !.old_line_no = @ + 1, !.new_line_no = @ + 1]
       ELSE [st EXCEPT !.context_buffer = IF Len(pushed) > context_lines THEN Tail(pushed) ELSE pushed,
                       !.old_line_no = @ + 1, !.new_line_no = @ + 1]

\* ChangeTag::Equal (diff.rs:58-88, 160-161).
ChangeTag_Equal(st, line_content) ==
    LET line == DiffLine("Context", line_content, Some(st.old_line_no), Some(st.new_line_no))
        pushed == Append(st.context_buffer, <<line_content, st.old_line_no, st.new_line_no>>)
    IN IF IsSome(st.current_hunk)
       THEN LET hunk == Unwrap(st.current_hunk)
                lines == Append(hunk.lines, line)
                after == context_after_changes(lines)
            IN IF after >= context_lines
               THEN [st EXCEPT !.hunks = Append(@, [hunk EXCEPT !.lines =
                                     SubSeq(lines, 1, (Len(lines) - after) + Min2(context_lines, after))]),
                               !.current_hunk = None,
                               !.context_buffer = <<>>,
                               !.old_line_no = @ + 1, !.new_line_no = @ + 1]
               ELSE [st EXCEPT !.current_hunk = Some([hunk EXCEPT !.lines = lines]),
                               !.old_line_no = @ + 1, !.new_line_no = @ + 1]
       ELSE [st EXCEPT !.context_buffer = IF Len(pushed) > context_lines THEN Tail(pushed) ELSE pushed,
                       !.old_line_no = @ + 1, !.new_line_no = @ + 1]

\* The hunk a change opens, its starts taken from the counters alone.
start_hunk_from_counters(st) ==
    LET buf == st.context_buffer
    IN [old_start |-> st.old_line_no,
        old_lines |-> 0,
        new_start |-> st.new_line_no,
        new_lines |-> 0,
        lines |-> [i \in 1..Len(buf) |-> DiffLine("Context", buf[i][1], Some(buf[i][2]), Some(buf[i][3]))]]

\* The hunk a change opens: it starts at the oldest buffered context line
\* and takes the buffered lines as Context (diff.rs:92-122, 127-157).
start_hunk(st) ==
    LET buf == st.context_buffer
    IN [old_start |-> IF buf # <<>> THEN buf[1][2] ELSE st.old_line_no,
        old_lines |-> 0,
        new_start |-> IF buf # <<>> THEN buf[1][3] ELSE st.new_line_no,
        new_lines |-> 0,
        lines |-> [i \in 1..Len(buf) |-> DiffLine("Context", buf[i][1], Some(buf[i][2]), Some(buf[i][3]))]]

\* ChangeTag::Delete (diff.rs:90-124, 162).
ChangeTag_Delete(st, line_content) ==
    LET opened == IsSome(st.current_hunk)
        hunk == IF opened THEN Unwrap(st.current_hunk) ELSE start_hunk(st)
        line == DiffLine("Deletion", line_content, Some(st.old_line_no), None)
    IN [st EXCEPT !.current_hunk = Some([hunk EXCEPT !.lines = Append(@, line), !.old_lines = @ + 1]),
                  !.context_buffer = IF opened THEN @ ELSE <<>>,
                  !.old_line_no = @ + 1]

\* The arm of Insert advancing both counters.
ChangeTag_Insert_both_counters(st, line_content) ==
    LET opened == IsSome(st.current_hunk)
        hunk == IF opened THEN Unwrap(st.current_hunk) ELSE start_hunk(st)
        line == DiffLine("Addition", line_content, None, Some(st.new_line_no))
    IN [st EXCEPT !.current_hunk = Some([hunk EXCEPT !.lines = Append(@, line), !.new_lines = @ + 1]),
                  !.context_buffer = IF opened THEN @ ELSE <<>>,
                  !.old_line_no = @ + 1, !.new_line_no = @ + 1]

\* ChangeTag::Insert (diff.rs:125-159, 163).
ChangeTag_Insert(st, line_content) ==
    LET opened == IsSome(st.current_hunk)
        hunk == IF opened THEN Unwrap(st.current_hunk) ELSE start_hunk(st)
        line == DiffLine("Addition", line_content, None, Some(st.new_line_no))
    IN [st EXCEPT !.current_hunk = Some([hunk EXCEPT !.lines = Append(@, line), !.new_lines = @ + 1]),
                  !.context_buffer = IF opened THEN @ ELSE <<>>,
                  !.new_line_no = @ + 1]

\* One turn of the loop over the changes (diff.rs:55-165).
process_change(st, change) ==
    LET line_content == trim_end_matches(change.value, "\n")
    IN CASE change.tag = "Equal" -> ChangeTag_Equal(st, line_content)
         [] change.tag = "Delete" -> ChangeTag_Delete(st, line_content)
         [] change.tag = "Insert" -> ChangeTag_Insert(st, line_content)

RECURSIVE iter_all_changes(_, _)
iter_all_changes(st, changes) ==
    IF changes = <<>> THEN st
    ELSE iter_all_changes(process_change(st, Head(changes)), Tail(changes))

\* The tail of compute_diff_hunks forgetting the hunk still open.
final_hunk_dropped(st) == st.hunks

\* The hunk still open at the end of the changes is kept (diff.rs:167-188).
final_hunk(st) ==
    IF IsSome(st.current_hunk) THEN Append(st.hunks, Unwrap(st.current_hunk)) ELSE st.hunks

\* compute_diff_hunks over the changes the oracle yields for its two texts.
compute_diff_hunks(changes) == final_hunk(iter_all_changes(diff_locals, changes))

\* create_deletion_hunks counting its lines as new lines too.
create_deletion_hunks_both_counts(content) ==
    LET lines == str_lines(content)
    IN IF lines = <<>> THEN <<>>
       ELSE <<[old_start |-> 1, old_lines |-> Len(lines), new_start |-> 1, new_lines |-> Len(lines),
               lines |-> [i \in 1..Len(lines) |-> DiffLine("Deletion", lines[i], Some(i), None)]]>>

create_deletion_hunks(content) ==
    LET lines == str_lines(content)
    IN IF lines = <<>> THEN <<>>
       ELSE <<[old_start |-> 1, old_lines |-> Len(lines), new_start |-> 1, new_lines |-> 0,
               lines |-> [i \in 1..Len(lines) |-> DiffLine("Deletion", lines[i], Some(i), None)]]>>

create_addition_hunks(content) ==
    LET lines == str_lines(content)
    IN IF lines = <<>> THEN <<>>
       ELSE <<[old_start |-> 1, old_lines |-> 0, new_start |-> 1, new_lines |-> Len(lines),
               lines |-> [i \in 1..Len(lines) |-> DiffLine("Addition", lines[i], None, Some(i))]]>>

FileDiff(left_content, right_content, hunks) ==
    [left_content |-> left_content, right_content |-> right_content, hunks |-> hunks]

\* diff_files failing when neither path exists.
diff_files_missing_is_error(left, right, changes) ==
    LET l == read_to_string(left)
        r == read_to_string(right)
    IN IF path_exists(left) /\ ~l.ok THEN Err
       ELSE IF path_exists(right) /\ ~r.ok THEN Err
       ELSE IF path_exists(left) /\ path_exists(right)
            THEN Ok(FileDiff(Some(Value(l)), Some(Value(r)), compute_diff_hunks(changes)))
       ELSE IF path_exists(left)
            THEN Ok(FileDiff(Some(Value(l)), None, create_deletion_hunks(Value(l))))
       ELSE IF path_exists(right)
            THEN Ok(FileDiff(None, Some(Value(r)), create_addition_hunks(Value(r))))
       ELSE Err

\* diff_files; changes is what the oracle yields when both texts are read.
diff_files(left, right, changes) ==
    LET l == read_to_string(left)
        r == read_to_string(right)
    IN IF path_exists(left) /\ ~l.ok THEN Err
       ELSE IF path_exists(right) /\ ~r.ok THEN Err
       ELSE IF path_exists(left) /\ path_exists(right)
            THEN Ok(FileDiff(Some(Value(l)), Some(Value(r)), compute_diff_hunks(changes)))
       ELSE IF path_exists(left)
            THEN Ok(FileDiff(Some(Value(l)), None, create_deletion_hunks(Value(l))))
       ELSE IF path_exists(right)
            THEN Ok(FileDiff(None, Some(Value(r)), create_addition_hunks(Value(r))))
       ELSE Ok(FileDiff(None, None, <<>>))

(***************************************************************************)
(* The inputs of diff_files: two texts with the changes an oracle yields   *)
(* for them, or at most one text.  The k-th old line is the k-th small     *)
(* letter, an inserted line the capital letter of its new line number.     *)
(***************************************************************************)
\* Most changes the oracle yields.
MaxOps == 9

Tags == {"Equal", "Delete", "Insert"}

Lower == <<"a", "b", "c", "d", "e", "f", "g", "h", "i", "j", "k", "l">>
Upper == <<"A", "B", "C", "D", "E", "F", "G", "H", "I", "J", "K", "L">>

OldPos(tags, k) == 1 + Cardinality({i \in 1..(k - 1) : tags[i] # "Insert"})
NewPos(tags, k) == 1 + Cardinality({i \in 1..(k - 1) : tags[i] # "Delete"})

\* The changes with the tags given; eol: the last line ends with "\n".
ChangesOf(tags, eol) ==
    [k \in 1..Len(tags) |->
        [tag |-> tags[k],
         value |-> <<IF tags[k] = "Insert" THEN Upper[NewPos(tags, k)] ELSE Lower[OldPos(tags, k)]>>
                   \o (IF k = Len(tags) /\ ~eol THEN <<>> ELSE <<"\n">>)]]

RECURSIVE ValuesOf(_, _)
ValuesOf(changes, skip) ==
    IF changes = <<>> THEN <<>>
    ELSE (IF Head(changes).tag = skip THEN <<>> ELSE <<Head(changes).value>>)
         \o ValuesOf(Tail(changes), skip)

\* The texts the changes align.
OldText(changes) == ValuesOf(changes, "Insert")
NewText(changes) == ValuesOf(changes, "Delete")

\* left = a..h, right = left with d replaced by D.
WindowingExample ==
    <<"Equal", "Equal", "Equal", "Delete", "Insert", "Equal", "Equal", "Equal", "Equal">>

TagSeqs == UNION {[1..n -> Tags] : n \in 0..MaxOps}

\* A text of n lines.
TextOf(n, eol) == OldText(ChangesOf([i \in 1..n |-> "Equal"], eol))

TwoTexts ==
    \E tags \in TagSeqs : \E eol \in BOOLEAN :
        /\ oracle = ChangesOf(tags, eol)
        /\ left_path = TextPath(OldText(oracle))
        /\ right_path = TextPath(NewText(oracle))

PathStates(n, eol) == {AbsentPath, UnreadablePath, TextPath(TextOf(n, eol))}

OneTextAtMost ==
    \E n \in 0..MaxOps : \E eol \in BOOLEAN :
        /\ left_path \in PathStates(n, eol)
        /\ right_path \in PathStates(n, eol)
        /\ left_path.kind # "text" \/ right_path.kind # "text"
        /\ oracle = <<>>

\* The two roots, and the file the requests of the diff engine name.
LeftRoot == <<"l">>
RightRoot == <<"r">>
DirectoryPath == [kind |-> "dir", content |-> <<>>]
FileRequest == [absolute |-> FALSE, components |-> <<"a">>]

\* The disk that holds l at LeftRoot/a and r at RightRoot/a.
DiskOf(l, r) ==
    [q \in {<<>>, LeftRoot, RightRoot} \cup
           (IF l.kind = "absent" THEN {} ELSE {LeftRoot \o <<"a">>}) \cup
           (IF r.kind = "absent" THEN {} ELSE {RightRoot \o <<"a">>}) |->
        IF q = LeftRoot \o <<"a">> THEN l
        ELSE IF q = RightRoot \o <<"a">> THEN r
        ELSE DirectoryPath]

\* Path::join: an absolute argument replaces the base.
join(base, p) == IF p.absolute THEN p.components ELSE base \o p.components

\* The absolute path the system resolves a path to, component by component:
\* ".." steps to the parent, a step through what is not a directory fails.
RECURSIVE resolve(_, _)
resolve(at, components) ==
    IF components = <<>> THEN Some(at)
    ELSE IF at \notin DOMAIN disk \/ disk[at].kind # "dir" THEN None
    ELSE IF Head(components) = ".."
         THEN resolve(IF at = <<>> THEN at ELSE SubSeq(at, 1, Len(at) - 1), Tail(components))
    ELSE resolve(Append(at, Head(components)), Tail(components))

\* What diff_files finds at a path: nothing, a text, or what read_to_string fails on.
file_at(path) ==
    LET where == resolve(<<>>, path)
    IN IF where = None \/ Unwrap(where) \notin DOMAIN disk THEN AbsentPath
       ELSE IF disk[Unwrap(where)].kind = "dir" THEN UnreadablePath
       ELSE disk[Unwrap(where)]

InitDiff ==
    /\ TwoTexts \/ OneTextAtMost
    /\ request = FileRequest
    /\ disk = DiskOf(left_path, right_path)
    /\ file_diff = None
    /\ fs = Filesystem(DirEntry, DirEntry, {}, <<>>, <<>>)
    /\ Idle
    /\ results = <<>>
    /\ NoCompare
    /\ NoTui

\* DiffyCore::get_file_diff: diff_files on the argument joined to each root.
get_file_diff ==
    /\ file_diff = None
    /\ left_path = file_at(join(LeftRoot, request))
    /\ right_path = file_at(join(RightRoot, request))
    /\ file_diff' = Some(diff_files(left_path, right_path, oracle))
    /\ UNCHANGED <<treeVars, left_path, right_path, oracle, request, disk, readVars, tuiVars>>

SpecDiff == InitDiff /\ [][get_file_diff]_vars

(***************************************************************************)
(* The properties of the diff engine.                                      *)
(***************************************************************************)
\* The FileDiff returned, when diff_files returned Ok.
Returned == IsSome(file_diff) /\ Unwrap(file_diff).ok
TheDiff == Value(Unwrap(file_diff))

KindsOf(hunk) == [i \in 1..Len(hunk.lines) |-> hunk.lines[i].kind]
ContentsOf(hunk) == [i \in 1..Len(hunk.lines) |-> hunk.lines[i].content]
CountKind(hunk, kind) == Cardinality({i \in 1..Len(hunk.lines) : hunk.lines[i].kind = kind})

\* The texts of the first n lines of a text, terminators left out.
LineTexts(n) == [i \in 1..n |-> <<Lower[i]>>]

\* hunks is one hunk of n lines of the kind given, the lines of the file in order.
WholeFileHunk(hunks, n, kind, old_lines, new_lines) ==
    /\ Len(hunks) = 1
    /\ ContentsOf(hunks[1]) = LineTexts(n)
    /\ \A i \in 1..Len(hunks[1].lines) : hunks[1].lines[i].kind = kind
    /\ hunks[1].old_lines = old_lines
    /\ hunks[1].new_lines = new_lines
    /\ hunks[1].old_start = 1
    /\ hunks[1].new_start = 1

OnlyRight == left_path.kind = "absent" /\ right_path.kind = "text"
OnlyLeft == left_path.kind = "text" /\ right_path.kind = "absent"

\* C11 as stated: for every N, a text of N lines on one side only gives exactly
\* one hunk of its N lines, all Addition (right only) or all Deletion (left only).
C11_OneHunkForEveryN ==
    Returned =>
        /\ OnlyRight => WholeFileHunk(TheDiff.hunks, Len(right_path.content), "Addition",
                                      0, Len(right_path.content))
        /\ OnlyLeft => WholeFileHunk(TheDiff.hunks, Len(left_path.content), "Deletion",
                                     Len(left_path.content), 0)

\* C11 amended: a text of N >= 1 lines on one side only gives exactly one hunk
\* of its N lines in order, all Addition with new_lines = N, old_lines = 0
\* (right only) or all Deletion with old_lines = N, new_lines = 0 (left only),
\* both starts 1; a text of no line gives no hunk.
C11_OneHunkWhenNonEmpty ==
    Returned =>
        /\ OnlyRight =>
              IF right_path.content = <<>> THEN TheDiff.hunks = <<>>
              ELSE WholeFileHunk(TheDiff.hunks, Len(right_path.content), "Addition",
                                 0, Len(right_path.content))
        /\ OnlyLeft =>
              IF left_path.content = <<>> THEN TheDiff.hunks = <<>>
              ELSE WholeFileHunk(TheDiff.hunks, Len(left_path.content), "Deletion",
                                 Len(left_path.content), 0)

C11_Witness ==
    /\ Returned
    /\ OnlyLeft
    /\ Len(left_path.content) = 3
    /\ Len(TheDiff.hunks) = 1
    /\ TheDiff.hunks[1].old_lines = 3

\* The tags of the changes the oracle yielded.
TagsOf(changes) == [k \in 1..Len(changes) |-> changes[k].tag]

BothTexts == left_path.kind = "text" /\ right_path.kind = "text"

IsWindowingExample == BothTexts /\ TagsOf(oracle) = WindowingExample

\* C12 as stated: for left = a..h and right = left with d replaced by D the
\* result is one hunk spanning lines 1 to 8, with a, b, c before the change and
\* e, f, g, h after it, one Deletion (d) and one Addition (D).
C12_ExampleSpansEight ==
    (Returned /\ IsWindowingExample) =>
        /\ Len(TheDiff.hunks) = 1
        /\ ContentsOf(TheDiff.hunks[1]) =
               <<<<"a">>, <<"b">>, <<"c">>, <<"d">>, <<"D">>, <<"e">>, <<"f">>, <<"g">>, <<"h">>>>
        /\ TheDiff.hunks[1].lines[Len(TheDiff.hunks[1].lines)].old_line_number = Some(8)
        /\ CountKind(TheDiff.hunks[1], "Deletion") = 1
        /\ CountKind(TheDiff.hunks[1], "Addition") = 1

\* C12 amended: for the same input the result is one hunk spanning lines 1 to
\* 7: the context a, b, c, the Deletion d, the Addition D and the context
\* e, f, g; the line h is in no hunk.
C12_ExampleSpansSeven ==
    (Returned /\ IsWindowingExample) =>
        /\ Len(TheDiff.hunks) = 1
        /\ ContentsOf(TheDiff.hunks[1]) =
               <<<<"a">>, <<"b">>, <<"c">>, <<"d">>, <<"D">>, <<"e">>, <<"f">>, <<"g">>>>
        /\ KindsOf(TheDiff.hunks[1]) =
               <<"Context", "Context", "Context", "Deletion", "Addition", "Context", "Context", "Context">>
        /\ TheDiff.hunks[1].old_start = 1
        /\ TheDiff.hunks[1].new_start = 1
        /\ TheDiff.hunks[1].lines[1].old_line_number = Some(1)
        /\ TheDiff.hunks[1].lines[8].old_line_number = Some(7)
        /\ TheDiff.hunks[1].lines[8].new_line_number = Some(7)

C12_Witness ==
    /\ Returned
    /\ IsWindowingExample
    /\ Len(oracle) = 9
    /\ Len(left_path.content) = 8
    /\ Len(TheDiff.hunks) = 1

IsChange(changes, k) == changes[k].tag # "Equal"

\* The hunk holds the line of the k-th change: a Deletion with its old line
\* number or an Addition with its new line number.
HunkHoldsChange(hunk, changes, k) ==
    \E n \in 1..Len(hunk.lines) :
        IF changes[k].tag = "Delete"
        THEN /\ hunk.lines[n].kind = "Deletion"
             /\ hunk.lines[n].old_line_number = Some(OldPos(TagsOf(changes), k))
        ELSE /\ hunk.lines[n].kind = "Addition"
             /\ hunk.lines[n].new_line_number = Some(NewPos(TagsOf(changes), k))

\* The changes i < j with nothing but Equal lines, fewer than gap of them, between.
Separated(changes, i, j, gap) ==
    /\ i < j
    /\ IsChange(changes, i)
    /\ IsChange(changes, j)
    /\ \A k \in (i + 1)..(j - 1) : ~IsChange(changes, k)
    /\ j - i - 1 < gap

SameHunk(hunks, changes, i, j) ==
    \E h \in 1..Len(hunks) :
        HunkHoldsChange(hunks[h], changes, i) /\ HunkHoldsChange(hunks[h], changes, j)

\* C13: two changes separated by fewer than 2 * CONTEXT = 6 Equal lines are in
\* the same hunk.
C13_MergeWithinTwiceContext ==
    (Returned /\ BothTexts) =>
        \A i \in 1..Len(oracle), j \in 1..Len(oracle) :
            Separated(oracle, i, j, 2 * context_lines) => SameHunk(TheDiff.hunks, oracle, i, j)

\* C14: when both sides exist, old_lines of every hunk is the number of its
\* Context and Deletion lines and new_lines the number of its Context and
\* Addition lines, the lengths the "@@ -old_start,old_lines +new_start,new_lines @@"
\* header shows.
C14_RangeLengths ==
    (Returned /\ BothTexts) =>
        \A h \in 1..Len(TheDiff.hunks) :
            /\ TheDiff.hunks[h].old_lines =
                   CountKind(TheDiff.hunks[h], "Context") + CountKind(TheDiff.hunks[h], "Deletion")
            /\ TheDiff.hunks[h].new_lines =
                   CountKind(TheDiff.hunks[h], "Context") + CountKind(TheDiff.hunks[h], "Addition")

\* The text of the n-th line of the file at a path, should it have one.
LineAt(f, n) ==
    IF f.kind = "text" /\ n \in 1..Len(f.content) THEN Some(<<f.content[n][1]>>) ELSE None

\* C15: in every hunk diff_files returns a Context line has both line numbers,
\* an Addition the new one only, a Deletion the old one only, and a number that
\* is set is the 1-based position of the line in the left (old) or the right
\* (new) file.
C15_LineNumbers ==
    Returned =>
        \A h \in 1..Len(TheDiff.hunks) : \A n \in 1..Len(TheDiff.hunks[h].lines) :
            LET line == TheDiff.hunks[h].lines[n]
            IN /\ line.kind = "Context" =>
                      IsSome(line.old_line_number) /\ IsSome(line.new_line_number)
               /\ line.kind = "Addition" =>
                      line.old_line_number = None /\ IsSome(line.new_line_number)
               /\ line.kind = "Deletion" =>
                      IsSome(line.old_line_number) /\ line.new_line_number = None
               /\ IsSome(line.old_line_number) =>
                      LineAt(left_path, Unwrap(line.old_line_number)) = Some(line.content)
               /\ IsSome(line.new_line_number) =>
                      LineAt(right_path, Unwrap(line.new_line_number)) = Some(line.content)

C15_Witness ==
    /\ Returned
    /\ BothTexts
    /\ \E h \in 1..Len(TheDiff.hunks) :
           \E a \in 1..Len(TheDiff.hunks[h].lines), d \in 1..Len(TheDiff.hunks[h].lines),
              c \in 1..Len(TheDiff.hunks[h].lines) :
               /\ TheDiff.hunks[h].lines[a].kind = "Addition"
               /\ TheDiff.hunks[h].lines[d].kind = "Deletion"
               /\ TheDiff.hunks[h].lines[c].kind = "Context"
               /\ TheDiff.hunks[h].lines[c].old_line_number # TheDiff.hunks[h].lines[c].new_line_number
               /\ a < c
               /\ d < c

NoChange(changes) == \A k \in 1..Len(changes) : ~IsChange(changes, k)

\* C16: when both sides exist the hunk list is empty if and only if the oracle
\* yields no Delete and no Insert, and every hunk holds an Addition or a Deletion.
C16_EmptyIffNoChange ==
    (Returned /\ BothTexts) =>
        /\ (TheDiff.hunks = <<>>) <=> NoChange(oracle)
        /\ \A h \in 1..Len(TheDiff.hunks) :
               CountKind(TheDiff.hunks[h], "Addition") + CountKind(TheDiff.hunks[h], "Deletion") >= 1

C16_Witness ==
    /\ Returned
    /\ BothTexts
    /\ Len(oracle) = context_lines + 1
    /\ NoChange(oracle)
    /\ left_path.content = right_path.content
    /\ TheDiff.hunks = <<>>

\* C19: when neither path exists diff_files returns Ok with both contents
\* absent and no hunk; and in every FileDiff returned left_content
\* (right_content) is absent exactly when the left (right) path does not exist.
C19_MissingSides ==
    IsSome(file_diff) =>
        /\ (~path_exists(left_path) /\ ~path_exists(right_path)) =>
               /\ Unwrap(file_diff).ok
               /\ TheDiff.left_content = None
               /\ TheDiff.right_content = None
               /\ TheDiff.hunks = <<>>
        /\ Returned =>
               /\ (TheDiff.left_content = None) <=> (left_path.kind = "absent")
               /\ (TheDiff.right_content = None) <=> (right_path.kind = "absent")

C19_Witness ==
    /\ IsSome(file_diff)
    /\ left_path.kind = "absent"
    /\ right_path.kind = "absent"
    /\ Unwrap(file_diff).ok
    /\ TheDiff.hunks = <<>>

(***************************************************************************)
(* Further properties of the tree builder.                                 *)
(***************************************************************************)
\* The equality check of p opens or reads its two files and one of them
\* cannot be opened.
CheckFails(p) ==
    /\ FileOn("L", p)
    /\ FileOn("R", p)
    /\ Lookup("L", p).len = Lookup("R", p).len
    /\ ~ReadableOn("L", p) \/ ~ReadableOn("R", p)

\* The status of a path by the two entries found at it and nothing else.
StatusAlone(l, r) ==
    LET foundL == l.kind \in {"file", "dir"}
        foundR == r.kind \in {"file", "dir"}
    IN IF foundL /\ foundR
       THEN IF l.kind = "dir" THEN "Unchanged"
            ELSE IF r.kind = "dir" THEN "Modified"
            ELSE IF l.readable /\ r.readable /\ l.len = r.len /\ l.mark = r.mark THEN "Unchanged"
            ELSE "Modified"
       ELSE IF foundL THEN "Removed"
       ELSE IF foundR THEN "Added"
       ELSE "Unchanged"

C18_UnchangedFoundOnBothSides ==
    \A a \in Assigned : a[2] = "Unchanged" => FoundOn("L", a[1]) /\ FoundOn("R", a[1])

DiffStatuses == {"Added", "Removed", "Modified", "Unchanged", "Conflicted"}

\* A node flagged is_directory has the status its presence on the sides gives.
DirectoryStatus(n) ==
    /\ (FoundOn("L", n.relative_path) /\ FoundOn("R", n.relative_path)) => n.status = "Unchanged"
    /\ (FoundOn("L", n.relative_path) /\ ~FoundOn("R", n.relative_path)) => n.status = "Removed"
    /\ (~FoundOn("L", n.relative_path) /\ FoundOn("R", n.relative_path)) => n.status = "Added"

\* C20 as stated: every node has one status, never Conflicted, a node flagged
\* is_directory is never Modified, and a directory node is Unchanged when found
\* on both sides, Added or Removed when found on one side only.
C20_DirectoryStatuses ==
    \A t \in BuiltTrees : \A n \in NodesOf(t) :
        /\ n.status \in DiffStatuses \ {"Conflicted"}
        /\ n.is_directory => n.status # "Modified"
        /\ n.is_directory => DirectoryStatus(n)

\* C20 amended: the same, the last part for the nodes other than the synthetic
\* root, which is Unchanged whatever the two roots are.
C20_DirectoryStatusesBelowRoot ==
    \A t \in BuiltTrees : \A n \in NodesOf(t) :
        /\ n.status \in DiffStatuses \ {"Conflicted"}
        /\ n.is_directory => n.status # "Modified"
        /\ (n.is_directory /\ n.relative_path # RootPath) => DirectoryStatus(n)
        /\ n.relative_path = RootPath => n.status = "Unchanged"

C20_Witness ==
    \E t \in ReturnedTrees : \E b \in NonRoot(t), o \in NonRoot(t) :
        /\ b.is_directory
        /\ DirOn("L", b.relative_path)
        /\ FileOn("R", b.relative_path)
        /\ b.status = "Unchanged"
        /\ o.is_directory
        /\ ~FoundOn("L", o.relative_path)
        /\ o.status = "Added"

\* C21: when both roots are regular files of different content, the tree
\* analyze returns holds a non-root node with status Modified, and
\* modified_count >= 1 and total_files >= 1.
C21_FileRootsDiffer ==
    (FileOn("L", RootPath) /\ FileOn("R", RootPath) /\ ~SameBytes(RootPath)) =>
        \A i \in 1..Len(results) :
            /\ results[i].ok
            /\ \E n \in NonRoot(Value(results[i]).tree) : n.status = "Modified"
            /\ Value(results[i]).modified_count >= 1
            /\ Value(results[i]).total_files >= 1

(***************************************************************************)
(* Further properties of the diff engine.                                  *)
(***************************************************************************)
\* The Context lines of a hunk before its first change, after its last one.
RECURSIVE LeadingContext(_)
LeadingContext(lines) ==
    IF lines = <<>> \/ lines[1].kind # "Context" THEN 0 ELSE 1 + LeadingContext(Tail(lines))

RECURSIVE TrailingContext(_)
TrailingContext(lines) ==
    IF lines = <<>> \/ lines[Len(lines)].kind # "Context" THEN 0
    ELSE 1 + TrailingContext(SubSeq(lines, 1, Len(lines) - 1))

\* The locals of compute_diff_hunks when the loop over the changes ends: its
\* hunks are those closed inside the loop.
LoopEnd == iter_all_changes(diff_locals, oracle)

\* C22: every hunk has at most CONTEXT Context lines before its first change
\* and after its last one; a hunk closed inside the loop ends with exactly
\* CONTEXT Context lines, the hunk closed at the end of the input with fewer.
C22_ContextPadding ==
    (Returned /\ BothTexts) =>
        /\ \A h \in 1..Len(TheDiff.hunks) :
               /\ LeadingContext(TheDiff.hunks[h].lines) <= context_lines
               /\ TrailingContext(TheDiff.hunks[h].lines) <= context_lines
        /\ \A h \in 1..Len(LoopEnd.hunks) :
               /\ TheDiff.hunks[h] = LoopEnd.hunks[h]
               /\ TrailingContext(TheDiff.hunks[h].lines) = context_lines
        /\ IsSome(LoopEnd.current_hunk) =>
               /\ Len(TheDiff.hunks) = Len(LoopEnd.hunks) + 1
               /\ TrailingContext(TheDiff.hunks[Len(TheDiff.hunks)].lines) < context_lines
        /\ ~IsSome(LoopEnd.current_hunk) => Len(TheDiff.hunks) = Len(LoopEnd.hunks)

C22_Witness ==
    /\ Returned
    /\ BothTexts
    /\ Len(TheDiff.hunks) = 2
    /\ Len(LoopEnd.hunks) = 1
    /\ LeadingContext(TheDiff.hunks[1].lines) = context_lines
    /\ TrailingContext(TheDiff.hunks[1].lines) = context_lines
    /\ TrailingContext(TheDiff.hunks[2].lines) \in 1..(context_lines - 1)
    /\ IsSome(LoopEnd.current_hunk)

\* The change of the oracle a Deletion or Addition line of a hunk comes from.
ChangeIndex(line) ==
    CHOOSE k \in 1..Len(oracle) :
        IF line.kind = "Deletion"
        THEN oracle[k].tag = "Delete" /\ line.old_line_number = Some(OldPos(TagsOf(oracle), k))
        ELSE oracle[k].tag = "Insert" /\ line.new_line_number = Some(NewPos(TagsOf(oracle), k))

\* The change that opened the hunk: the one of its first Deletion or Addition.
OpeningChange(hunk) == ChangeIndex(hunk.lines[LeadingContext(hunk.lines) + 1])

\* The locals of compute_diff_hunks when the k-th change is reached.
LocalsBefore(k) == iter_all_changes(diff_locals, SubSeq(oracle, 1, k - 1))

\* The old (new) numbers the lines of a hunk carry, in hunk order.
RECURSIVE NumbersOf(_, _)
NumbersOf(lines, field) ==
    IF lines = <<>> THEN <<>>
    ELSE (IF field = "old" THEN Head(lines).old_line_number ELSE Head(lines).new_line_number)
         \o NumbersOf(Tail(lines), field)

Consecutive(numbers, start) == \A i \in 1..Len(numbers) : numbers[i] = start + i - 1

\* C23: old_start and new_start of a hunk are the numbers of the oldest
\* buffered context line when the buffer was not empty at opening, the counters
\* otherwise; the old numbers of its lines are old_start, old_start + 1, ...
\* and the new numbers new_start, new_start + 1, ... in hunk order.
C23_HunkStarts ==
    (Returned /\ BothTexts) =>
        \A h \in 1..Len(TheDiff.hunks) :
            LET hunk == TheDiff.hunks[h]
                k == OpeningChange(hunk)
                st == LocalsBefore(k)
            IN /\ st.current_hunk = None
               /\ st.old_line_no = OldPos(TagsOf(oracle), k)
               /\ st.new_line_no = NewPos(TagsOf(oracle), k)
               /\ hunk.old_start = IF st.context_buffer # <<>> THEN st.context_buffer[1][2]
                                   ELSE st.old_line_no
               /\ hunk.new_start = IF st.context_buffer # <<>> THEN st.context_buffer[1][3]
                                   ELSE st.new_line_no
               /\ LeadingContext(hunk.lines) = Len(st.context_buffer)
               /\ Consecutive(NumbersOf(hunk.lines, "old"), hunk.old_start)
               /\ Consecutive(NumbersOf(hunk.lines, "new"), hunk.new_start)

C23_Witness ==
    /\ Returned
    /\ BothTexts
    /\ Len(TheDiff.hunks) = 2
    /\ LeadingContext(TheDiff.hunks[1].lines) = 0
    /\ LeadingContext(TheDiff.hunks[2].lines) = 2
    /\ TheDiff.hunks[2].old_start # TheDiff.hunks[2].new_start
    /\ Len(NumbersOf(TheDiff.hunks[2].lines, "old")) >= context_lines
    /\ Len(NumbersOf(TheDiff.hunks[2].lines, "new")) >= context_lines

\* The Deletion and Addition lines of the hunks in hunk order: <<kind, text>>.
RECURSIVE ChangedLines(_)
ChangedLines(lines) ==
    IF lines = <<>> THEN <<>>
    ELSE (IF Head(lines).kind = "Context" THEN <<>>
          ELSE <<<<Head(lines).kind, Head(lines).content>>>>)
         \o ChangedLines(Tail(lines))

RECURSIVE AllLines(_)
AllLines(hunks) == IF hunks = <<>> THEN <<>> ELSE Head(hunks).lines \o AllLines(Tail(hunks))

\* The Delete and Insert operations of the oracle in their order, each as the
\* line it is to give: <<kind, text of the line without its terminator>>.
RECURSIVE ChangeOps(_)
ChangeOps(changes) ==
    IF changes = <<>> THEN <<>>
    ELSE (CASE Head(changes).tag = "Equal" -> <<>>
            [] Head(changes).tag = "Delete" -> <<<<"Deletion", <<Head(changes).value[1]>>>>>>
            [] Head(changes).tag = "Insert" -> <<<<"Addition", <<Head(changes).value[1]>>>>>>)
         \o ChangeOps(Tail(changes))

\* Every number of the first sequence is below every number of the second.
AllBelow(first, second) ==
    \A i \in 1..Len(first), j \in 1..Len(second) : first[i] < second[j]

\* C24: the Deletion and Addition lines of the hunks, in hunk order, are the
\* Delete and Insert operations of the oracle in their order; no old or new
\* line is in two hunks and the hunks are in increasing line order.
C24_ChangesKept ==
    (Returned /\ BothTexts) =>
        /\ ChangedLines(AllLines(TheDiff.hunks)) = ChangeOps(oracle)
        /\ \A g \in 1..Len(TheDiff.hunks), h \in 1..Len(TheDiff.hunks) :
               g < h =>
                   /\ AllBelow(NumbersOf(TheDiff.hunks[g].lines, "old"),
                               NumbersOf(TheDiff.hunks[h].lines, "old"))
                   /\ AllBelow(NumbersOf(TheDiff.hunks[g].lines, "new"),
                               NumbersOf(TheDiff.hunks[h].lines, "new"))
                   /\ TheDiff.hunks[g].old_start < TheDiff.hunks[h].old_start
                   /\ TheDiff.hunks[g].new_start < TheDiff.hunks[h].new_start

C24_Witness ==
    /\ Returned
    /\ BothTexts
    /\ Len(TheDiff.hunks) = 2
    /\ Len(ChangeOps(oracle)) = 4
    /\ CountKind(TheDiff.hunks[1], "Deletion") = 1
    /\ CountKind(TheDiff.hunks[1], "Addition") = 1
    /\ CountKind(TheDiff.hunks[2], "Addition") = 1
    /\ CountKind(TheDiff.hunks[2], "Deletion") = 1

\* The hunk that holds the line of the k-th change.
HunkOf(k) == CHOOSE h \in 1..Len(TheDiff.hunks) : HunkHoldsChange(TheDiff.hunks[h], oracle, k)

\* The changes i < j with nothing but Equal lines between them.
ConsecutiveChanges(i, j) == Separated(oracle, i, j, Len(oracle))

\* The old numbers of the Equal lines i+1 .. i+n of the oracle.
EqualNumbers(i, n) == [m \in 1..n |-> OldPos(TagsOf(oracle), i + m)]

\* The old numbers of the first (last) n lines of a hunk.
FirstNumbers(hunk, n) == [m \in 1..n |-> Unwrap(hunk.lines[m].old_line_number)]
LastNumbers(hunk, n) ==
    [m \in 1..n |-> Unwrap(hunk.lines[Len(hunk.lines) - n + m].old_line_number)]

\* C25: two consecutive changes are in one hunk if and only if fewer than
\* CONTEXT Equal lines lie between them; with CONTEXT or more between them the
\* first hunk ends with the first CONTEXT of these lines and the next hunk
\* starts with those after them, CONTEXT at most, so with fewer than CONTEXT
\* when the gap is 3, 4 or 5.
C25_SplitAtContext ==
    (Returned /\ BothTexts) =>
        \A i \in 1..Len(oracle), j \in 1..Len(oracle) :
            ConsecutiveChanges(i, j) =>
                LET gap == j - i - 1
                    first == TheDiff.hunks[HunkOf(i)]
                    next == TheDiff.hunks[HunkOf(j)]
                    leading == Min2(gap - context_lines, context_lines)
                IN /\ (HunkOf(i) = HunkOf(j)) <=> (gap < context_lines)
                   /\ gap >= context_lines =>
                          /\ HunkOf(j) = HunkOf(i) + 1
                          /\ TrailingContext(first.lines) = context_lines
                          /\ LastNumbers(first, context_lines) = EqualNumbers(i, context_lines)
                          /\ LeadingContext(next.lines) = leading
                          /\ FirstNumbers(next, leading) = EqualNumbers(j - 1 - leading, leading)
                          /\ gap < 2 * context_lines => LeadingContext(next.lines) < context_lines

C25_Witness ==
    /\ Returned
    /\ BothTexts
    /\ \E i \in 1..Len(oracle), j \in 1..Len(oracle) :
           /\ ConsecutiveChanges(i, j)
           /\ j - i - 1 = context_lines + 1
           /\ HunkOf(j) = HunkOf(i) + 1
           /\ LeadingContext(TheDiff.hunks[HunkOf(j)].lines) = 1

(***************************************************************************)
(* compare_large_files under reads that deliver less than the buffer       *)
(* holds: two files of one length of 1 MiB or more at ContentPath, and for *)
(* each reader the most its first read calls deliver.                      *)
(***************************************************************************)
\* Most read calls of a reader whose size is chosen.
MaxReads == 2

ReadCaps == {1, CHUNK_SIZE \div 2, CHUNK_SIZE}

ReadPlans == UNION {[1..n -> ReadCaps] : n \in 0..MaxReads}

LargeFiles(n) == {FileOf(n, {}, TRUE), FileOf(n, {0}, TRUE), FileOf(n, {n - 1}, TRUE)}

InitCompare ==
    /\ \E n \in {SMALL_FILE_LIMIT, SMALL_FILE_LIMIT + 1} : \E el \in LargeFiles(n), er \in LargeFiles(n) :
           fs = Filesystem(DirEntry, DirEntry, {ContentPath},
                           (ContentPath :> el), (ContentPath :> er))
    /\ reads \in [Sides -> ReadPlans]
    /\ large_equal = None
    /\ Idle
    /\ results = <<>>
    /\ NoDiff
    /\ NoTui

\* files_are_equal hands the two files to compare_large_files, which returns.
compare_large_files_call ==
    /\ large_equal = None
    /\ large_equal' = Some(compare_large_files(ContentPath, reads["L"], reads["R"]))
    /\ UNCHANGED <<treeVars, diffVars, reads, tuiVars>>

SpecCompare == InitCompare /\ [][compare_large_files_call]_vars

\* C26: whatever the read calls deliver, compare_large_files returns true for
\* two byte-identical files and false for two files that differ.
C26_ExactWhateverReads ==
    IsSome(large_equal) => Unwrap(large_equal) = Ok(SameBytes(ContentPath))

(***************************************************************************)
(* get_file_diff on any path argument: the roots /l and /r hold the file   *)
(* a, the file /s lies outside them.                                       *)
(***************************************************************************)
\* Most components of the path argument.
MaxComponents == 3

Components == {"a", "..", "s", "l"}

Requests ==
    {[absolute |-> b, components |-> c] :
        b \in BOOLEAN, c \in UNION {[1..n -> Components] : n \in 0..MaxComponents}}

RootChanges == ChangesOf(<<"Equal", "Delete", "Insert">>, TRUE)

OutsidePath == <<"s">>

\* The texts the file outside the roots may hold.
OutsideTexts == {TextOf(1, TRUE), TextOf(context_lines, TRUE)}

RequestDisk(outside) ==
    DiskOf(TextPath(OldText(RootChanges)), TextPath(NewText(RootChanges)))
        @@ (OutsidePath :> TextPath(outside))

\* The changes the oracle yields for the texts found: those of the file a of
\* the two roots, or none but Equal for one file found twice.
OracleFor(l, r) ==
    IF l.kind # "text" \/ r.kind # "text" THEN <<>>
    ELSE IF l = r THEN ChangesOf([i \in 1..Len(l.content) |-> "Equal"], TRUE)
    ELSE RootChanges

InitRequest ==
    /\ \E outside \in OutsideTexts : disk = RequestDisk(outside)
    /\ request \in Requests
    /\ left_path = file_at(join(LeftRoot, request))
    /\ right_path = file_at(join(RightRoot, request))
    /\ oracle = OracleFor(left_path, right_path)
    /\ left_path.kind = "text" /\ right_path.kind = "text" =>
           OldText(oracle) = left_path.content /\ NewText(oracle) = right_path.content
    /\ file_diff = None
    /\ fs = Filesystem(DirEntry, DirEntry, {}, <<>>, <<>>)
    /\ Idle
    /\ results = <<>>
    /\ NoCompare
    /\ NoTui

SpecRequest == InitRequest /\ [][get_file_diff]_vars

IsPrefix(root, path) == Len(path) > Len(root) /\ SubSeq(path, 1, Len(root)) = root

\* The absolute path lies under the left or under the right root.
UnderRoots(path) == IsPrefix(LeftRoot, path) \/ IsPrefix(RightRoot, path)

\* The texts of the files under the two roots.
TextsUnderRoots == {disk[q].content : q \in {x \in DOMAIN disk : UnderRoots(x) /\ disk[x].kind = "text"}}

\* C27: whatever the path argument, the files get_file_diff reads lie under
\* the left or the right root, and the contents it returns are those of files
\* under the roots.
C27_ReadsUnderRoots ==
    IsSome(file_diff) =>
        /\ \A root \in {LeftRoot, RightRoot} :
               file_at(join(root, request)).kind = "text" =>
                   UnderRoots(Unwrap(resolve(<<>>, join(root, request))))
        /\ Returned =>
               /\ IsSome(TheDiff.left_content) => Unwrap(TheDiff.left_content) \in TextsUnderRoots
               /\ IsSome(TheDiff.right_content) => Unwrap(TheDiff.right_content) \in TextsUnderRoots

(***************************************************************************)
(* The terminal interface (cli/tui.rs): the flattened tree, the selection  *)
(* of the list and the file shown.  A usize is kept as an integer k, a     *)
(* negative k standing for usize::MAX + 1 + k, so that 0 - 1 wraps to -1   *)
(* whatever the width of the machine word.                                 *)
(***************************************************************************)
\* x >= y on usize.
usize_ge(x, y) == IF (x < 0) = (y < 0) THEN x >= y ELSE x < 0

\* Vec::get: the item at index i, if there is one.
get(items, i) == IF i >= 0 /\ i < Len(items) THEN Some(items[i + 1]) ELSE None

\* Ord for Path: component by component.
RECURSIVE CmpPaths(_, _)
CmpPaths(p, q) ==
    IF p = <<>> /\ q = <<>> THEN "Equal"
    ELSE IF p = <<>> THEN "Less"
    ELSE IF q = <<>> THEN "Greater"
    ELSE IF CmpBytes(Head(p), Head(q)) # "Equal" THEN CmpBytes(Head(p), Head(q))
    ELSE CmpPaths(Tail(p), Tail(q))

\* The closure of sorted_children.sort_by (tui.rs:136-142).
flatten_cmp(a, b) ==
    IF a.is_directory /\ ~b.is_directory THEN "Less"
    ELSE IF ~a.is_directory /\ b.is_directory THEN "Greater"
    ELSE CmpPaths(a.relative_path, b.relative_path)

RECURSIVE InsertChild(_, _)
InsertChild(x, s) ==
    IF s = <<>> THEN <<x>>
    ELSE IF flatten_cmp(x, Head(s)) = "Less" THEN <<x>> \o s
    ELSE <<Head(s)>> \o InsertChild(x, Tail(s))

\* The stable sort of the cloned children.
RECURSIVE sorted_children(_)
sorted_children(s) ==
    IF s = <<>> THEN <<>>
    ELSE InsertChild(s[Len(s)], sorted_children(SubSeq(s, 1, Len(s) - 1)))

RECURSIVE Concat(_)
Concat(ss) == IF ss = <<>> THEN <<>> ELSE Head(ss) \o Concat(Tail(ss))

TreeDisplayItem(entry, indent_level) ==
    [path |-> entry.relative_path,
     display_name |-> Unwrap(file_name(entry.relative_path)),
     status |-> entry.status,
     is_directory |-> entry.is_directory,
     indent_level |-> indent_level]

\* flatten_tree showing the children of collapsed directories too.
RECURSIVE flatten_tree_ignores_collapsed(_, _, _)
flatten_tree_ignores_collapsed(entry, indent_level, collapsed_dirs) ==
    LET own == IF entry.relative_path # RootPath
               THEN <<TreeDisplayItem(entry, indent_level)>>
               ELSE <<>>
        children == sorted_children(entry.children)
        child_indent == IF entry.relative_path = RootPath THEN indent_level ELSE indent_level + 1
    IN own \o Concat([i \in 1..Len(children) |->
                         flatten_tree_ignores_collapsed(children[i], child_indent, collapsed_dirs)])

RECURSIVE flatten_tree(_, _, _)
flatten_tree(entry, indent_level, collapsed_dirs) ==
    LET own == IF entry.relative_path # RootPath
               THEN <<TreeDisplayItem(entry, indent_level)>>
               ELSE <<>>
        is_collapsed == entry.is_directory /\ entry.relative_path \in collapsed_dirs
        children == sorted_children(entry.children)
        child_indent == IF entry.relative_path = RootPath THEN indent_level ELSE indent_level + 1
    IN IF is_collapsed THEN own
       ELSE own \o Concat([i \in 1..Len(children) |->
                              flatten_tree(children[i], child_indent, collapsed_dirs)])

RECURSIVE collect_directories(_, _)
collect_directories(entry, collapsed_dirs) ==
    LET own == IF entry.is_directory /\ entry.relative_path # RootPath
               THEN {entry.relative_path}
               ELSE {}
    IN collapsed_dirs \cup own \cup
       UNION {collect_directories(entry.children[i], {}) : i \in 1..Len(entry.children)}

\* The first index whose item has the path given (Iterator::position).
RECURSIVE position(_, _, _)
position(items, path, from) ==
    IF from >= Len(items) THEN None
    ELSE IF items[from + 1].path = path THEN Some(from)
    ELSE position(items, path, from + 1)

\* The item under the selection, if the selection points at one.
selected_item(a) == IF IsSome(a.tree_state) THEN get(a.tree_items, Unwrap(a.tree_state)) ELSE None

\* refresh_tree_view selecting the first item whatever was selected.
refresh_tree_view_selects_first(a) ==
    IF ~IsSome(a.diff_result) THEN a
    ELSE LET items == flatten_tree(Unwrap(a.diff_result).tree, 0, a.collapsed_dirs)
         IN [a EXCEPT !.tree_items = items,
                      !.tree_state = IF items # <<>> THEN Some(0) ELSE @]

refresh_tree_view(a) ==
    IF ~IsSome(a.diff_result) THEN a
    ELSE LET selected_path == IF IsSome(selected_item(a))
                              THEN Some(Unwrap(selected_item(a)).path)
                              ELSE None
             items == flatten_tree(Unwrap(a.diff_result).tree, 0, a.collapsed_dirs)
             new_index == IF IsSome(selected_path)
                          THEN position(items, Unwrap(selected_path), 0)
                          ELSE None
         IN [a EXCEPT !.tree_items = items,
                      !.tree_state = IF IsSome(new_index) THEN new_index
                                     ELSE IF items # <<>> THEN Some(0)
                                     ELSE @]

\* The directory under the selection that the three tree keys act on.
current_directory(a) ==
    IF IsSome(selected_item(a)) /\ Unwrap(selected_item(a)).is_directory
    THEN Some(Unwrap(selected_item(a)).path)
    ELSE None

toggle_current_directory(a) ==
    IF ~IsSome(current_directory(a)) THEN a
    ELSE LET path == Unwrap(current_directory(a))
         IN refresh_tree_view([a EXCEPT !.collapsed_dirs =
                IF path \in @ THEN @ \ {path} ELSE @ \cup {path}])

expand_current_directory(a) ==
    IF ~IsSome(current_directory(a)) THEN a
    ELSE refresh_tree_view([a EXCEPT !.collapsed_dirs = @ \ {Unwrap(current_directory(a))}])

collapse_current_directory(a) ==
    IF ~IsSome(current_directory(a)) THEN a
    ELSE refresh_tree_view([a EXCEPT !.collapsed_dirs = @ \cup {Unwrap(current_directory(a))}])

\* What terminal.draw leaves of the list state (tui.rs:162,382): a list widget
\* that clamps resets the selection of an empty list and moves a selection
\* beyond the list to its last item; one that does not leaves it alone.
draw(a) ==
    IF ~profile.render_clamps \/ ~IsSome(a.tree_state) THEN a
    ELSE IF a.tree_items = <<>> THEN [a EXCEPT !.tree_state = None]
    ELSE IF usize_ge(Unwrap(a.tree_state), Len(a.tree_items))
         THEN [a EXCEPT !.tree_state = Some(Len(a.tree_items) - 1)]
    ELSE a

next_item(a) ==
    LET len == Len(a.tree_items)
        selected == a.tree_state
    IN IF ~IsSome(selected) THEN Ok([a EXCEPT !.tree_state = Some(0)])
       ELSE IF len = 0 /\ profile.overflow_checks THEN Err
       ELSE Ok([a EXCEPT !.tree_state =
                   Some(IF usize_ge(Unwrap(selected), len - 1) THEN 0 ELSE Unwrap(selected) + 1)])

previous_item(a) ==
    LET len == Len(a.tree_items)
        selected == a.tree_state
    IN IF ~IsSome(selected) THEN Ok([a EXCEPT !.tree_state = Some(0)])
       ELSE IF Unwrap(selected) = 0 /\ len = 0 /\ profile.overflow_checks THEN Err
       ELSE Ok([a EXCEPT !.tree_state =
                   Some(IF Unwrap(selected) = 0 THEN len - 1 ELSE Unwrap(selected) - 1)])

\* The text of a regular file's bytes: one line without a line ending, the
\* bytes 0 and 1 being the characters NUL and SOH.
text_of(e) ==
    IF e.len = 0 THEN <<>>
    ELSE <<[i \in 1..e.len |-> IF (i - 1) \in e.mark THEN "SOH" ELSE "NUL"]>>

\* What diff_files finds at relative_path under one root.
side_file(side, relative_path) ==
    LET e == Lookup(side, relative_path)
    IN IF ~exists(side, relative_path) THEN AbsentPath
       ELSE IF e.kind = "file" /\ e.readable THEN TextPath(text_of(e))
       ELSE UnreadablePath

\* TextDiff::from_lines for texts of at most one line each.
from_lines(old, new) ==
    IF old = new THEN [k \in 1..Len(old) |-> [tag |-> "Equal", value |-> old[k]]]
    ELSE [k \in 1..Len(old) |-> [tag |-> "Delete", value |-> old[k]]]
         \o [k \in 1..Len(new) |-> [tag |-> "Insert", value |-> new[k]]]

\* get_file_diff for a path of the tree, on the filesystem the tree was built from.
core_get_file_diff(relative_path) ==
    LET left == side_file("L", relative_path)
        right == side_file("R", relative_path)
    IN diff_files(left, right, from_lines(left.content, right.content))

\* select_current_item: the application it leaves and whether it returned Ok.
select_current_item(a) ==
    LET item == selected_item(a)
    IN IF ~IsSome(item) \/ Unwrap(item).is_directory THEN [app |-> a, ok |-> TRUE]
       ELSE LET path == Unwrap(item).path
                diff == core_get_file_diff(path)
            IN IF diff.ok
               THEN [app |-> [a EXCEPT !.selected_file = Some(path),
                                       !.current_diff = Some(Value(diff)),
                                       !.scroll_offset = 0],
                     ok |-> TRUE]
               ELSE [app |-> [a EXCEPT !.selected_file = Some(path)], ok |-> FALSE]

u16_MAX == 65535

scroll_down(a) == [a EXCEPT !.scroll_offset = Min2(@ + 3, u16_MAX)]

scroll_up(a) == [a EXCEPT !.scroll_offset = IF @ < 3 THEN 0 ELSE @ - 3]

(***************************************************************************)
(* The trees the interface starts from and the keys it handles.            *)
(***************************************************************************)
\* Largest distance of a selection from 0 or from usize::MAX.
MaxIndex == 3

\* Largest scroll offset reached by scrolling.
MaxScroll == 3

UnreadableFile == FileOf(2, {}, FALSE)

\* The file "a", "Z": a file or an empty directory, and "ab": a file, or a
\* directory holding "ab/a".
TuiPaths == {<<<<90>>>>, <<<<97>>>>, <<<<97, 98>>>>, <<<<97, 98>>, <<97>>>>}

TuiFilePairs ==
    {<<NoEntry, NoEntry>>, <<PlainFile, PlainFile>>, <<PlainFile, ChangedFile>>,
     <<PlainFile, UnreadableFile>>, <<NoEntry, PlainFile>>}

TuiEntryPairs == TuiFilePairs \cup {<<DirEntry, DirEntry>>}

TuiFilesystem(f) ==
    \E a \in TuiFilePairs, c \in TuiFilePairs :
        \E z \in TuiEntryPairs, b \in TuiEntryPairs :
            LET pair == (<<<<90>>>> :> z) @@ (<<<<97>>>> :> a) @@ (<<<<97, 98>>>> :> b)
                        @@ (<<<<97, 98>>, <<97>>>> :> c)
            IN /\ c # <<NoEntry, NoEntry>> => b = <<DirEntry, DirEntry>>
               /\ f = Filesystem(DirEntry, DirEntry, TuiPaths,
                                 [p \in TuiPaths |-> pair[p][1]], [p \in TuiPaths |-> pair[p][2]])

Profiles == [overflow_checks : BOOLEAN, render_clamps : BOOLEAN]

\* TuiApp::new has returned and analyze has built the tree it is about to return.
InitTui ==
    /\ TuiFilesystem(fs)
    /\ walked = [s \in Sides |-> walk_entries(s)]
    /\ walkerDone = [s \in Sides |-> TRUE]
    /\ found = walked
    /\ all_paths = found["L"] \cup found["R"]
    /\ file_infos = [p \in all_paths |-> file_info(p)]
    /\ statuses = [p \in all_paths |-> <<file_infos[p], file_status(file_infos[p])>>]
    /\ \E order \in IterationOrders(all_paths) : tree = build_tree_from_statuses(statuses, order)
    /\ pc = "built"
    /\ results = <<>>
    /\ NoDiff
    /\ NoCompare
    /\ app = TuiApp_new
    /\ app_end = "running"
    /\ profile \in Profiles

\* load_diff_result: analyze returns, every directory starts collapsed.
load_diff_result ==
    /\ pc = "built"
    /\ app_end = "running"
    /\ ~IsSome(app.diff_result)
    /\ LET returned == diff_result(tree)
       IN IF ~returned.ok
          THEN app' = app /\ app_end' = "error"
          ELSE LET collapsed_dirs == collect_directories(Value(returned).tree, app.collapsed_dirs)
                   items == flatten_tree(Value(returned).tree, 0, collapsed_dirs)
               IN /\ app' = [app EXCEPT !.collapsed_dirs = collapsed_dirs,
                                        !.tree_items = items,
                                        !.tree_state = IF items # <<>> THEN Some(0) ELSE @,
                                        !.diff_result = Some(Value(returned))]
                  /\ app_end' = app_end
    /\ results' = Append(results, diff_result(tree))
    /\ pc' = "idle"
    /\ walked' = [s \in Sides |-> {}]
    /\ walkerDone' = [s \in Sides |-> FALSE]
    /\ found' = [s \in Sides |-> {}]
    /\ all_paths' = {}
    /\ file_infos' = <<>>
    /\ statuses' = <<>>
    /\ tree' = NoTree
    /\ UNCHANGED <<fs, profile, diffVars, readVars>>

\* run_app is in its loop: the tree is loaded and no key has ended the loop.
Running == app_end = "running" /\ IsSome(app.diff_result)

InRange(a) == ~IsSome(a.tree_state) \/ Unwrap(a.tree_state) \in (0 - MaxIndex)..MaxIndex

\* One turn of the loop of run_app for a key whose handler may panic.
Moved(result) ==
    /\ Running
    /\ IF result.ok
       THEN InRange(Value(result)) /\ app' = Value(result) /\ app_end' = app_end
       ELSE app' = draw(app) /\ app_end' = "panic"
    /\ UNCHANGED <<treeVars, diffVars, readVars, profile>>

\* One turn of the loop of run_app for a key whose handler returns nothing.
Handled(a) ==
    /\ Running
    /\ app' = a
    /\ UNCHANGED <<treeVars, diffVars, readVars, profile, app_end>>

KeyCode_Down == Moved(next_item(draw(app)))

KeyCode_Up == Moved(previous_item(draw(app)))

\* select_current_item()?: an error leaves the loop.
KeyCode_Enter ==
    /\ Running
    /\ app' = select_current_item(draw(app)).app
    /\ app_end' = IF select_current_item(draw(app)).ok THEN app_end ELSE "error"
    /\ UNCHANGED <<treeVars, diffVars, readVars, profile>>

KeyCode_Left == Handled(collapse_current_directory(draw(app)))

KeyCode_Right == Handled(expand_current_directory(draw(app)))

KeyCode_Space == Handled(toggle_current_directory(draw(app)))

KeyCode_PageDown == app.scroll_offset + 3 <= MaxScroll /\ Handled(scroll_down(draw(app)))

KeyCode_PageUp == Handled(scroll_up(draw(app)))

KeyCode_Home == Handled([draw(app) EXCEPT !.scroll_offset = 0])

NextTui ==
    \/ load_diff_result
    \/ KeyCode_Down
    \/ KeyCode_Up
    \/ KeyCode_Enter
    \/ KeyCode_Left
    \/ KeyCode_Right
    \/ KeyCode_Space
    \/ KeyCode_PageDown
    \/ KeyCode_PageUp
    \/ KeyCode_Home

SpecTui == InitTui /\ [][NextTui]_vars

TypeTui == app_end \in {"running", "error", "panic"}

(***************************************************************************)
(* The properties of the terminal interface.                               *)
(***************************************************************************)
Loaded == IsSome(app.diff_result)

SelectionInList ==
    ~IsSome(app.tree_state) \/ Unwrap(app.tree_state) \in 0..(Len(app.tree_items) - 1)

\* C28: once the tree is loaded, whatever keys were pressed, the selection of
\* the list is none or an index below tree_items.len(), and no key made
\* next_item or previous_item subtract 1 from a length of zero, the tree
\* without entries included.
C28_SelectionWithinList == Loaded => SelectionInList /\ app_end # "panic"

\* The nodes below entry in tree order, the children as the tree holds them.
RECURSIVE NodesBelow(_)
NodesBelow(entry) ==
    Concat([i \in 1..Len(entry.children) |->
               <<entry.children[i]>> \o NodesBelow(entry.children[i])])

ProperAncestors(path) == {SubSeq(path, 1, k) : k \in 1..(Len(path) - 1)}

\* The nodes none of whose proper ancestors is collapsed, in tree order.
VisibleNodes(a) ==
    SelectSeq(NodesBelow(Unwrap(a.diff_result).tree),
              LAMBDA node : ProperAncestors(node.relative_path) \cap a.collapsed_dirs = {})

ShowsVisibleNodes(a) ==
    /\ Len(a.tree_items) = Len(VisibleNodes(a))
    /\ \A i \in 1..Len(a.tree_items) :
           /\ a.tree_items[i].path = VisibleNodes(a)[i].relative_path
           /\ a.tree_items[i].is_directory = VisibleNodes(a)[i].is_directory
           /\ a.tree_items[i].status = VisibleNodes(a)[i].status

SelectedPath(a) == IF IsSome(selected_item(a)) THEN Some(Unwrap(selected_item(a)).path) ELSE None

\* What Left, Right and Space make of the application in one turn of the loop.
TreeKeys(a) ==
    {collapse_current_directory(draw(a)), expand_current_directory(draw(a)),
     toggle_current_directory(draw(a))}

OnDirectory(a) == IsSome(selected_item(a)) /\ Unwrap(selected_item(a)).is_directory

OnFile(a) == IsSome(selected_item(a)) /\ ~Unwrap(selected_item(a)).is_directory

\* C29: once the tree is loaded, tree_items lists exactly the tree nodes none
\* of whose proper ancestors is in collapsed_dirs, in tree order; Left, Right
\* and Space on a selected directory keep its path selected and change
\* nothing on a selected file; toggling the selected directory twice restores
\* collapsed_dirs and tree_items.
C29_TreeView ==
    Running =>
        /\ ShowsVisibleNodes(app)
        /\ \A after \in TreeKeys(app) :
               /\ ShowsVisibleNodes(after)
               /\ OnDirectory(app) => SelectedPath(after) = SelectedPath(app)
               /\ OnFile(app) => after = app
        /\ LET twice == toggle_current_directory(draw(toggle_current_directory(draw(app))))
           IN /\ twice.collapsed_dirs = app.collapsed_dirs
              /\ twice.tree_items = app.tree_items

\* A directory that is not the first item was expanded and is selected, its
\* child shown below it; another directory is still collapsed.
C29_Witness ==
    /\ Running
    /\ OnDirectory(app)
    /\ Unwrap(app.tree_state) > 0
    /\ SelectedPath(app) \notin {Some(d) : d \in app.collapsed_dirs}
    /\ \E i \in 1..Len(app.tree_items) : Len(app.tree_items[i].path) > 1
    /\ app.collapsed_dirs # {}

\* C30: whenever selected_file and current_diff are both set, current_diff
\* is the diff of selected_file, also after an Enter whose get_file_diff call
\* failed.
C30_DiffOfSelectedFile ==
    IsSome(app.selected_file) /\ IsSome(app.current_diff) =>
        core_get_file_diff(Unwrap(app.selected_file)) = Ok(Unwrap(app.current_diff))

====
